---- MODULE Spec2Model ----
(***************************************************************************)
(* QSocketProtocol (src/src/bin/protocol.ts): the binary codec that turns  *)
(* a message (an ordered list of chunks) into one byte buffer, to(), and   *)
(* back, from().                                                           *)
(*                                                                         *)
(* Conventions of the model                                                *)
(*   - a Buffer / Uint8Array is a sequence of bytes 0..255; JavaScript     *)
(*     offsets are 0-based, TLA+ sequences 1-based, so buffer[offset] is   *)
(*     written buffer[offset + 1];                                         *)
(*   - a JavaScript string is the sequence of its code points;             *)
(*   - a function that can throw returns [error, value, calls]: error is   *)
(*     the message of the Error thrown ("" when it returns normally),      *)
(*     calls the compressor operations it invoked, in order;               *)
(*   - the runtime is Node.js (hasBuffer is true); the branches taken      *)
(*     without Buffer compute the same bytes.                              *)
(***************************************************************************)
EXTENDS Integers, Sequences, FiniteSets, TLC

\* ------------------------------------------------------------------ enums

\* EQSocketProtocolMessageType
DATA == 0
CONTROL == 1
ACK == 2

\* EQSocketProtocolContentType
CT_UNDEFINED == 0
CT_NULL == 1
CT_BOOLEAN == 2
CT_NUMBER == 3
CT_STRING == 4
CT_JSON == 5
CT_BUFFER == 6

\* EQSocketProtocolContentEncoding
RAW == 0
GZIP == 1
DEFLATE == 2

\* ------------------------------------------------- JavaScript value model

\* What buffer[offset] evaluates to when offset is outside the buffer.
undefinedElement == -1

Min(a, b) == IF a < b THEN a ELSE b

\* The element of a set of one element. Only({e(x) : x \in {v}}) is e of v,
\* with v evaluated once: it names an intermediate result, as a const
\* declaration of the code does.
Only(S) == CHOOSE x \in S : TRUE

Return(v, calls) == [error |-> "", value |-> v, calls |-> calls]

Throw(msg, calls) == [error |-> msg, value |-> <<>>, calls |-> calls]

\* What is thrown is the value null, which has no message.
thrownNull == "<null>"

\* TypedArray.prototype.subarray(begin, end): both ends are clamped to the
\* length of the array.
subarray(buffer, begin, end) ==
    SubSeq(buffer, Min(begin, Len(buffer)) + 1, Min(end, Len(buffer)))

\* The payload values of the model, tagged by their runtime type.
JsUndefined == [t |-> "undefined"]
JsNull == [t |-> "null"]
JsBoolean(b) == [t |-> "boolean", b |-> b]
JsNumber(n) == [t |-> "number", n |-> n]
\* A double that is not one of the small integers of the model, kept as the
\* eight bytes of its IEEE-754 representation.
JsDouble(bits) == [t |-> "number", bits |-> bits]
JsString(s) == [t |-> "string", s |-> s]
JsObject(props) == [t |-> "object", props |-> props]
JsArray(items) == [t |-> "array", items |-> items]
JsBuffer(bytes) == [t |-> "buffer", bytes |-> bytes]

\* ------------------------------------------------------ binary primitives

\* The concatenation of pieces[lo..hi], by halves.
RECURSIVE Flatten(_, _, _)
Flatten(pieces, lo, hi) ==
    IF lo > hi THEN <<>>
    ELSE IF lo = hi THEN pieces[lo]
    ELSE LET mid == (lo + hi) \div 2
         IN  Flatten(pieces, lo, mid) \o Flatten(pieces, mid + 1, hi)

concatBuffers(buffers) == Flatten(buffers, 1, Len(buffers))

\* Variant of writeUInt32 that writes the least significant byte first.
writeUInt32_littleEndian(value) ==
    << value % 256, (value \div 256) % 256, (value \div 65536) % 256,
       (value \div 16777216) % 256 >>

writeUInt32(value) ==
    << (value \div 16777216) % 256, (value \div 65536) % 256,
       (value \div 256) % 256, value % 256 >>

readUInt32(buffer, offset) ==
    (buffer[offset + 1] * 16777216) + (buffer[offset + 2] * 65536)
        + (buffer[offset + 3] * 256) + buffer[offset + 4]

writeUInt8(value) == << value % 256 >>

readUInt8(buffer, offset) ==
    IF offset < Len(buffer) THEN buffer[offset + 1] ELSE undefinedElement

RECURSIVE Pow2(_)
Pow2(e) == IF e = 0 THEN 1 ELSE 2 * Pow2(e - 1)

RECURSIVE Log2(_)
Log2(n) == IF n < 2 THEN 0 ELSE 1 + Log2(n \div 2)

Abs(n) == IF n < 0 THEN 0 - n ELSE n

\* The integers whose IEEE-754 fraction fits the first four fraction bits.
IsSmallInteger(n) == Abs(n) < 32

\* Big-endian IEEE-754 binary64 of an integer -31..31: sign bit, 11-bit biased
\* exponent, and the fraction, of which only the four leading bits can be set.
writeDouble(value) ==
    IF value = 0 THEN <<0, 0, 0, 0, 0, 0, 0, 0>>
    ELSE LET sign == IF value < 0 THEN 1 ELSE 0
             e == Log2(Abs(value))
             biased == 1023 + e
             frac4 == (Abs(value) - Pow2(e)) * Pow2(4 - e)
         IN  << (sign * 128) + (biased \div 16), ((biased % 16) * 16) + frac4,
                0, 0, 0, 0, 0, 0 >>

\* readDoubleBE throws a RangeError when fewer than 8 bytes follow offset.
readDouble(buffer, offset) ==
    IF Len(buffer) < offset + 8
    THEN Throw("Attempt to access memory outside buffer bounds", <<>>)
    ELSE LET b == SubSeq(buffer, offset + 1, offset + 8)
             sign == b[1] \div 128
             biased == ((b[1] % 128) * 16) + (b[2] \div 16)
             frac4 == b[2] % 16
             e == biased - 1023
             scaled == (16 + frac4) * Pow2(e)
         IN  IF b = <<0, 0, 0, 0, 0, 0, 0, 0>> THEN Return(JsNumber(0), <<>>)
             ELSE IF SubSeq(b, 3, 8) = <<0, 0, 0, 0, 0, 0>>
                     /\ e >= 0 /\ e <= 4 /\ scaled % 16 = 0
                  THEN Return(JsNumber((IF sign = 1 THEN -1 ELSE 1) * (scaled \div 16)), <<>>)
                  ELSE Return(JsDouble(b), <<>>)

\* UTF-8 of a string whose code points are below U+0800: one byte below
\* U+0080, two bytes otherwise.
encodeString(str) ==
    Flatten([i \in 1..Len(str) |->
                IF str[i] < 128 THEN <<str[i]>>
                ELSE <<192 + (str[i] \div 64), 128 + (str[i] % 64)>>],
            1, Len(str))

\* TextDecoder('utf8') is not fatal: a byte that starts no well-formed
\* sequence decodes to U+FFFD. Sequences of three and four bytes are outside
\* the model and decode as malformed. A continuation byte belongs to the
\* lead byte before it; a lead byte is never itself a continuation.
decodeString(bytes) ==
    LET IsLead(i) == bytes[i] >= 194 /\ bytes[i] <= 223
        IsCont(i) == bytes[i] >= 128 /\ bytes[i] <= 191
    IN  Flatten([i \in 1..Len(bytes) |->
                    IF bytes[i] < 128 THEN <<bytes[i]>>
                    ELSE IF IsLead(i) /\ i < Len(bytes) /\ IsCont(i + 1)
                         THEN <<((bytes[i] - 192) * 64) + (bytes[i + 1] - 128)>>
                    ELSE IF IsCont(i) /\ i > 1 /\ IsLead(i - 1) THEN <<>>
                    ELSE <<65533>>],
                1, Len(bytes))

\* ------------------------------------------------------------------- JSON

\* Decimal digits of a natural number, as code points.
RECURSIVE Digits(_)
Digits(n) ==
    IF n < 10 THEN <<48 + n>> ELSE Digits(n \div 10) \o <<48 + (n % 10)>>

\* A JSON string literal: the quotation mark and the reverse solidus are
\* escaped. The strings of the model hold no control characters.
Quote(str) ==
    Flatten([i \in 1..Len(str) |->
                IF str[i] \in {34, 92} THEN <<92, str[i]>> ELSE <<str[i]>>],
            1, Len(str))

\* JSON.stringify of a value of the model: null, booleans, integers, strings,
\* arrays, and objects as the sequence of their <<key, value>> properties in
\* insertion order.
RECURSIVE JSONstringify(_)
RECURSIVE StringifyItems(_)
RECURSIVE StringifyProps(_)
JSONstringify(value) ==
    CASE value.t = "null" -> <<110, 117, 108, 108>>
      [] value.t = "boolean" ->
            IF value.b THEN <<116, 114, 117, 101>> ELSE <<102, 97, 108, 115, 101>>
      [] value.t = "number" ->
            IF value.n < 0 THEN <<45>> \o Digits(0 - value.n) ELSE Digits(value.n)
      [] value.t = "string" -> <<34>> \o Quote(value.s) \o <<34>>
      [] value.t = "array" -> <<91>> \o StringifyItems(value.items) \o <<93>>
      [] value.t = "object" -> <<123>> \o StringifyProps(value.props) \o <<125>>
      [] value.t = "buffer" ->
            \* Buffer.prototype.toJSON: {"type":"Buffer","data":[...]}
            <<123>> \o StringifyProps(<<
                <<(<<116, 121, 112, 101>>), JsString(<<66, 117, 102, 102, 101, 114>>)>>,
                <<(<<100, 97, 116, 97>>), JsArray([i \in 1..Len(value.bytes) |-> JsNumber(value.bytes[i])])>>
            >>) \o <<125>>

StringifyItems(items) ==
    IF items = <<>> THEN <<>>
    ELSE JSONstringify(Head(items))
             \o (IF Len(items) > 1 THEN <<44>> \o StringifyItems(Tail(items)) ELSE <<>>)

StringifyProps(props) ==
    IF props = <<>> THEN <<>>
    ELSE <<34>> \o Quote(Head(props)[1]) \o <<34, 58>> \o JSONstringify(Head(props)[2])
             \o (IF Len(props) > 1 THEN <<44>> \o StringifyProps(Tail(props)) ELSE <<>>)

ParseFail == [ok |-> FALSE, value |-> JsUndefined, pos |-> 0]

Parsed(value, pos) == [ok |-> TRUE, value |-> value, pos |-> pos]

RECURSIVE SkipWs(_, _)
SkipWs(text, pos) ==
    IF pos <= Len(text) /\ text[pos] \in {9, 10, 13, 32} THEN SkipWs(text, pos + 1) ELSE pos

IsWord(text, pos, word) ==
    /\ pos + Len(word) - 1 <= Len(text)
    /\ SubSeq(text, pos, pos + Len(word) - 1) = word

\* The characters of a string literal, from the position after the opening
\* quotation mark. Of the escapes only \" \\ and \/ are in the model.
RECURSIVE ParseString(_, _, _)
ParseString(text, pos, acc) ==
    IF pos > Len(text) THEN ParseFail
    ELSE IF text[pos] = 34 THEN Parsed(acc, pos + 1)
    ELSE IF text[pos] = 92
         THEN IF pos + 1 <= Len(text) /\ text[pos + 1] \in {34, 47, 92}
              THEN ParseString(text, pos + 2, Append(acc, text[pos + 1]))
              ELSE ParseFail
    ELSE IF text[pos] < 32 THEN ParseFail
    ELSE ParseString(text, pos + 1, Append(acc, text[pos]))

RECURSIVE ParseDigits(_, _, _)
ParseDigits(text, pos, acc) ==
    IF pos <= Len(text) /\ text[pos] >= 48 /\ text[pos] <= 57
    THEN ParseDigits(text, pos + 1, (acc * 10) + (text[pos] - 48))
    ELSE Parsed(acc, pos)

\* An integer literal: an optional minus sign and digits without a leading
\* zero. Fractions and exponents are outside the model.
ParseNumber(text, pos) ==
    LET neg == text[pos] = 45
        first == IF neg THEN pos + 1 ELSE pos
        r == ParseDigits(text, first, 0)
    IN  IF first > Len(text) \/ r.pos = first THEN ParseFail
        ELSE IF text[first] = 48 /\ r.pos > first + 1 THEN ParseFail
        ELSE Parsed(JsNumber(IF neg THEN 0 - r.value ELSE r.value), r.pos)

RECURSIVE ParseValue(_, _)
RECURSIVE ParseElements(_, _, _)
RECURSIVE ParseMembers(_, _, _)
RECURSIVE ParseMember(_, _, _)
ParseValue(text, from0) ==
    LET pos == SkipWs(text, from0)
    IN  IF pos > Len(text) THEN ParseFail
        ELSE CASE text[pos] = 110 ->
                    IF IsWord(text, pos, <<110, 117, 108, 108>>)
                    THEN Parsed(JsNull, pos + 4) ELSE ParseFail
               [] text[pos] = 116 ->
                    IF IsWord(text, pos, <<116, 114, 117, 101>>)
                    THEN Parsed(JsBoolean(TRUE), pos + 4) ELSE ParseFail
               [] text[pos] = 102 ->
                    IF IsWord(text, pos, <<102, 97, 108, 115, 101>>)
                    THEN Parsed(JsBoolean(FALSE), pos + 5) ELSE ParseFail
               [] text[pos] = 34 ->
                    Only({IF r.ok THEN Parsed(JsString(r.value), r.pos) ELSE ParseFail :
                          r \in {ParseString(text, pos + 1, <<>>)}})
               [] text[pos] = 45 \/ (text[pos] >= 48 /\ text[pos] <= 57) ->
                    ParseNumber(text, pos)
               [] text[pos] = 91 ->
                    LET p == SkipWs(text, pos + 1)
                    IN  IF p <= Len(text) /\ text[p] = 93
                        THEN Parsed(JsArray(<<>>), p + 1)
                        ELSE ParseElements(text, p, <<>>)
               [] text[pos] = 123 ->
                    LET p == SkipWs(text, pos + 1)
                    IN  IF p <= Len(text) /\ text[p] = 125
                        THEN Parsed(JsObject(<<>>), p + 1)
                        ELSE ParseMembers(text, p, <<>>)
               [] OTHER -> ParseFail

ParseElements(text, pos, acc) ==
    Only({
        IF ~r.ok THEN ParseFail
        ELSE LET p == SkipWs(text, r.pos)
             IN  IF p > Len(text) THEN ParseFail
                 ELSE IF text[p] = 44 THEN ParseElements(text, p + 1, Append(acc, r.value))
                 ELSE IF text[p] = 93 THEN Parsed(JsArray(Append(acc, r.value)), p + 1)
                 ELSE ParseFail
        : r \in {ParseValue(text, pos)}})

\* A member after its key k, whose closing quotation mark is before k.pos.
ParseMember(text, k, acc) ==
    LET p1 == SkipWs(text, k.pos)
    IN  IF p1 > Len(text) \/ text[p1] # 58 THEN ParseFail
        ELSE Only({
            IF ~r.ok THEN ParseFail
            ELSE LET p2 == SkipWs(text, r.pos)
                     props == Append(acc, <<k.value, r.value>>)
                 IN  IF p2 > Len(text) THEN ParseFail
                     ELSE IF text[p2] = 44 THEN ParseMembers(text, p2 + 1, props)
                     ELSE IF text[p2] = 125 THEN Parsed(JsObject(props), p2 + 1)
                     ELSE ParseFail
            : r \in {ParseValue(text, p1 + 1)}})

ParseMembers(text, pos, acc) ==
    LET p0 == SkipWs(text, pos)
    IN  IF p0 > Len(text) \/ text[p0] # 34 THEN ParseFail
        ELSE Only({IF k.ok THEN ParseMember(text, k, acc) ELSE ParseFail :
                   k \in {ParseString(text, p0 + 1, <<>>)}})

\* JSON.parse: the whole text must be one value; anything else is a
\* SyntaxError.
JSONparse(text) ==
    Only({IF r.ok /\ SkipWs(text, r.pos) = Len(text) + 1
          THEN Return(r.value, <<>>)
          ELSE Throw("Unexpected token in JSON", <<>>)
          : r \in {ParseValue(text, 1)}})

\* ------------------------------------------------------------- compressor

\* The compressor the tests inject wraps zlib. The model keeps what the codec
\* can observe of it: each format has its own header and trailer, the body
\* is shorter than the input when the input repeats itself and longer when
\* it does not, and decompressing bytes that are no output of the matching
\* compression fails. The body replaces each run of zero bytes by a zero
\* and the length of the run; inputs stay below 256 bytes.
Deflated(data) ==
    LET RunEnd(i) ==
            IF \E j \in i..Len(data) : data[j] # 0
            THEN (CHOOSE j \in i..Len(data) :
                      data[j] # 0 /\ \A k \in i..(j - 1) : data[k] = 0) - 1
            ELSE Len(data)
    IN  Flatten([i \in 1..Len(data) |->
                    IF data[i] # 0 THEN <<data[i]>>
                    ELSE IF i = 1 \/ data[i - 1] # 0 THEN <<0, RunEnd(i) - i + 1>>
                    ELSE <<>>],
                1, Len(data))

\* A zero in a body is always the mark of a run, followed by its length.
IsDeflated(body) ==
    \A i \in 1..Len(body) : body[i] = 0 => (i < Len(body) /\ body[i + 1] # 0)

Inflated(body) ==
    Flatten([i \in 1..Len(body) |->
                IF body[i] = 0 THEN [k \in 1..body[i + 1] |-> 0]
                ELSE IF i > 1 /\ body[i - 1] = 0 THEN <<>>
                ELSE <<body[i]>>],
            1, Len(body))

RECURSIVE SumRange(_, _, _)
SumRange(data, lo, hi) ==
    IF lo > hi THEN 0
    ELSE IF lo = hi THEN data[lo]
    ELSE LET mid == (lo + hi) \div 2
         IN  SumRange(data, lo, mid) + SumRange(data, mid + 1, hi)

Checksum(data) == (1 + SumRange(data, 1, Len(data))) % 251

toGzip(data) == <<31, 139>> \o Deflated(data) \o <<Len(data) % 256>>

fromGzip(data) ==
    LET body == SubSeq(data, 3, Len(data) - 1)
    IN  IF Len(data) < 3 \/ SubSeq(data, 1, 2) # <<31, 139>>
        THEN Throw("incorrect header check", <<>>)
        ELSE IF ~IsDeflated(body) THEN Throw("invalid block type", <<>>)
        ELSE IF Len(Inflated(body)) % 256 # data[Len(data)]
             THEN Throw("incorrect length check", <<>>)
        ELSE Return(Inflated(body), <<>>)

toDeflate(data) == <<120>> \o Deflated(data) \o <<Checksum(data)>>

fromDeflate(data) ==
    LET body == SubSeq(data, 2, Len(data) - 1)
    IN  IF Len(data) < 2 \/ data[1] # 120
        THEN Throw("incorrect header check", <<>>)
        ELSE IF ~IsDeflated(body) THEN Throw("invalid block type", <<>>)
        ELSE IF Checksum(Inflated(body)) # data[Len(data)]
             THEN Throw("incorrect data check", <<>>)
        ELSE Return(Inflated(body), <<>>)

\* ------------------------------------------------------------ the codec

VARIABLES
    compressor,           \* this.compressor: "none" (undefined), "zlib" or a faulty one
    maxUncompressedSize,  \* this.maxUncompressedSize
    message,              \* the argument of the last to()
    encoded,              \* what the last to() resolved to
    buffer,               \* the bytes handed to from()
    edit,                 \* what was done to those bytes since to() returned them
    decoded,              \* what the last from() resolved to
    pc,                   \* "idle", "encoded", "handed", "decoded" or "written"
    inflight,             \* the calls of to() and from() not yet returned, with their locals
    turns                 \* how many continuations of each call the event loop has run

vars == <<compressor, maxUncompressedSize, message, encoded, buffer, edit, decoded, pc,
          inflight, turns>>

\* One awaited call of an operation of this.compressor. Without a compressor
\* the property access on undefined throws a TypeError and nothing is called.
\* The operations of the compressor "throwsError" fail with an Error, those
\* of "throwsNull" fail with the value null.
Call(op, data) ==
    IF compressor = "none"
    THEN Throw("Cannot read properties of undefined", <<>>)
    ELSE IF compressor = "throwsError"
    THEN Throw("compressor failed", <<[op |-> op, data |-> data]>>)
    ELSE IF compressor = "throwsNull"
    THEN Throw(thrownNull, <<[op |-> op, data |-> data]>>)
    ELSE
    LET r == CASE op = "toGzip" -> Return(toGzip(data), <<>>)
               [] op = "toDeflate" -> Return(toDeflate(data), <<>>)
               [] op = "fromGzip" -> fromGzip(data)
               [] op = "fromDeflate" -> fromDeflate(data)
    IN  [r EXCEPT !.calls = <<[op |-> op, data |-> data]>>]

\* JavaScript's conversions of a payload value that is not of the type its
\* tag names.
Truthy(data) ==
    CASE data.t \in {"undefined", "null"} -> FALSE
      [] data.t = "boolean" -> data.b
      [] data.t = "number" -> data # JsNumber(0)
      [] data.t = "string" -> data.s # <<>>
      [] OTHER -> TRUE

\* The bytes writeDoubleBE stores for a value: the value converted by unary
\* plus. What does not convert to a number is NaN.
DoubleBytes(data) ==
    CASE data.t = "number" ->
            IF "n" \in DOMAIN data THEN writeDouble(data.n) ELSE data.bits
      [] data.t = "null" -> writeDouble(0)
      [] data.t = "boolean" -> writeDouble(IF data.b THEN 1 ELSE 0)
      [] data.t = "string" /\ data.s = <<>> -> writeDouble(0)
      [] OTHER -> <<127, 248, 0, 0, 0, 0, 0, 0>>

\* The string TextEncoder.encode converts its argument to.
StringOf(data) ==
    CASE data.t = "string" -> data.s
      [] data.t = "undefined" -> <<>>
      [] data.t \in {"null", "boolean", "number"} -> JSONstringify(data)
      [] data.t = "buffer" -> decodeString(data.bytes)
      [] OTHER -> <<91, 111, 98, 106, 101, 99, 116, 32, 79, 98, 106, 101, 99, 116, 93>>

\* new Uint8Array(data) for a value that is no Buffer: a number is a length,
\* and so is a string of decimal digits; an array is copied element by
\* element; anything else has no elements.
NewUint8Array(data) ==
    CASE data.t = "buffer" -> Return(data.bytes, <<>>)
      [] data.t = "string" ->
            IF data.s # <<>> /\ \A i \in 1..Len(data.s) : data.s[i] \in 48..57
            THEN Return([i \in 1..ParseDigits(data.s, 1, 0).value |-> 0], <<>>)
            ELSE Return(<<>>, <<>>)
      [] data.t = "number" ->
            IF "n" \notin DOMAIN data THEN Return(<<>>, <<>>)
            ELSE IF data.n < 0 THEN Throw("Invalid typed array length", <<>>)
            ELSE Return([i \in 1..data.n |-> 0], <<>>)
      [] data.t = "boolean" -> Return([i \in 1..(IF data.b THEN 1 ELSE 0) |-> 0], <<>>)
      [] data.t = "array" ->
            Return([i \in 1..Len(data.items) |->
                      IF data.items[i].t = "number" /\ "n" \in DOMAIN data.items[i]
                      THEN data.items[i].n % 256 ELSE 0], <<>>)
      [] OTHER -> Return(<<>>, <<>>)

\* Variant of encodePayloadData that switches on the byte the tag is
\* written as.
encodePayloadData_lowByte(data, contentType) ==
    LET tag == contentType % 256
    IN  CASE tag \in {CT_UNDEFINED, CT_NULL} -> Return(<<>>, <<>>)
          [] tag = CT_BOOLEAN -> Return(writeUInt8(IF Truthy(data) THEN 1 ELSE 0), <<>>)
          [] tag = CT_NUMBER -> Return(DoubleBytes(data), <<>>)
          [] tag = CT_STRING -> Return(encodeString(StringOf(data)), <<>>)
          [] tag = CT_JSON ->
                IF data.t = "undefined" THEN Return(<<>>, <<>>)
                ELSE Return(encodeString(JSONstringify(data)), <<>>)
          [] tag = CT_BUFFER -> NewUint8Array(data)
          [] OTHER -> Throw("Unknown content type", <<>>)

encodePayloadData(data, contentType) ==
    CASE contentType = CT_UNDEFINED -> Return(<<>>, <<>>)
      [] contentType = CT_NULL -> Return(<<>>, <<>>)
      [] contentType = CT_BOOLEAN -> Return(writeUInt8(IF Truthy(data) THEN 1 ELSE 0), <<>>)
      [] contentType = CT_NUMBER -> Return(DoubleBytes(data), <<>>)
      [] contentType = CT_STRING -> Return(encodeString(StringOf(data)), <<>>)
      [] contentType = CT_JSON ->
            \* JSON.stringify(undefined) is undefined, which encodes as ""
            IF data.t = "undefined" THEN Return(<<>>, <<>>)
            ELSE Return(encodeString(JSONstringify(data)), <<>>)
      [] contentType = CT_BUFFER -> NewUint8Array(data)
      [] OTHER -> Throw("Unknown content type", <<>>)

\* Variant of decodePayloadData that hands on the byte of a BOOLEAN payload
\* as a number.
decodePayloadData_booleanAsByte(buf, contentType) ==
    CASE contentType = CT_UNDEFINED -> Return(JsUndefined, <<>>)
      [] contentType = CT_NULL -> Return(JsNull, <<>>)
      [] contentType = CT_BOOLEAN -> Return(JsNumber(readUInt8(buf, 0)), <<>>)
      [] contentType = CT_NUMBER -> readDouble(buf, 0)
      [] contentType = CT_STRING -> Return(JsString(decodeString(buf)), <<>>)
      [] contentType = CT_JSON -> JSONparse(decodeString(buf))
      [] contentType = CT_BUFFER -> Return(JsBuffer(buf), <<>>)
      [] OTHER -> Throw("Unknown content type", <<>>)

decodePayloadData(buf, contentType) ==
    CASE contentType = CT_UNDEFINED -> Return(JsUndefined, <<>>)
      [] contentType = CT_NULL -> Return(JsNull, <<>>)
      [] contentType = CT_BOOLEAN -> Return(JsBoolean(readUInt8(buf, 0) # 0), <<>>)
      [] contentType = CT_NUMBER -> readDouble(buf, 0)
      [] contentType = CT_STRING -> Return(JsString(decodeString(buf)), <<>>)
      [] contentType = CT_JSON -> JSONparse(decodeString(buf))
      [] contentType = CT_BUFFER -> Return(JsBuffer(buf), <<>>)
      [] OTHER -> Throw("Unknown content type", <<>>)

\* Variant of encodeContent that leaves the payload as it is when there is
\* no compressor.
encodeContent_fallbackRaw(dataBuffer, contentEncoding) ==
    IF contentEncoding = GZIP /\ compressor # "none" THEN Call("toGzip", dataBuffer)
    ELSE IF contentEncoding = DEFLATE /\ compressor # "none" THEN Call("toDeflate", dataBuffer)
    ELSE IF contentEncoding \notin {RAW, GZIP, DEFLATE} THEN Throw("Unknown Content-Encoding", <<>>)
    ELSE Return(dataBuffer, <<>>)

\* Variant of encodeContent that sends a payload as it is under every
\* Content-Encoding but GZIP and DEFLATE.
encodeContent_unknownAsRaw(dataBuffer, contentEncoding) ==
    IF contentEncoding = GZIP
    THEN IF compressor # "none" THEN Call("toGzip", dataBuffer)
         ELSE Throw("Compressor not available for GZIP encoding", <<>>)
    ELSE IF contentEncoding = DEFLATE
    THEN IF compressor # "none" THEN Call("toDeflate", dataBuffer)
         ELSE Throw("Compressor not available for DEFLATE encoding", <<>>)
    ELSE Return(dataBuffer, <<>>)

\* Variant of encodeContent that compresses a RAW payload when there is a
\* compressor.
encodeContent_gzipByDefault(dataBuffer, contentEncoding) ==
    IF contentEncoding = GZIP \/ (contentEncoding = RAW /\ compressor # "none")
    THEN IF compressor # "none" THEN Call("toGzip", dataBuffer)
         ELSE Throw("Compressor not available for GZIP encoding", <<>>)
    ELSE IF contentEncoding = DEFLATE
    THEN IF compressor # "none" THEN Call("toDeflate", dataBuffer)
         ELSE Throw("Compressor not available for DEFLATE encoding", <<>>)
    ELSE IF contentEncoding # RAW THEN Throw("Unknown Content-Encoding", <<>>)
    ELSE Return(dataBuffer, <<>>)

\* Content encoding of an encoded payload.
encodeContent(dataBuffer, contentEncoding) ==
    IF contentEncoding = GZIP
    THEN IF compressor # "none" THEN Call("toGzip", dataBuffer)
         ELSE Throw("Compressor not available for GZIP encoding", <<>>)
    ELSE IF contentEncoding = DEFLATE
    THEN IF compressor # "none" THEN Call("toDeflate", dataBuffer)
         ELSE Throw("Compressor not available for DEFLATE encoding", <<>>)
    ELSE IF contentEncoding # RAW THEN Throw("Unknown Content-Encoding", <<>>)
    ELSE Return(dataBuffer, <<>>)

\* Variant of encodeChunk that looks at the meta after the payload has been
\* encoded.
encodeChunk_metaCheckedLast(chunk) ==
    Only({
        IF data.error # "" THEN data
        ELSE Only({
            IF payload.error # "" THEN payload
            ELSE IF ~Truthy(chunk.meta) \/ chunk.meta.t \notin {"object", "array", "buffer"}
            THEN Throw("Invalid chunk meta", payload.calls)
            ELSE LET metaBuffer == encodeString(JSONstringify(chunk.meta))
                 IN  Return(concatBuffers(<<writeUInt32(Len(metaBuffer)), metaBuffer,
                                            writeUInt32(Len(payload.value)),
                                            writeUInt8(chunk.payload.ContentType),
                                            writeUInt8(chunk.payload.ContentEncoding),
                                            payload.value>>),
                            payload.calls)
            : payload \in {encodeContent(data.value, chunk.payload.ContentEncoding)}})
        : data \in {encodePayloadData(chunk.payload.data, chunk.payload.ContentType)}})

\* Variant of encodeChunk that writes as payload length the length of the
\* payload before its content encoding.
encodeChunk_lengthBeforeEncoding(chunk) ==
    IF ~Truthy(chunk.meta) \/ chunk.meta.t \notin {"object", "array", "buffer"}
    THEN Throw("Invalid chunk meta", <<>>)
    ELSE Only({
        IF data.error # "" THEN data
        ELSE Only({
            IF payload.error # "" THEN payload
            ELSE LET metaBuffer == encodeString(JSONstringify(chunk.meta))
                 IN  Return(concatBuffers(<<writeUInt32(Len(metaBuffer)), metaBuffer,
                                            writeUInt32(Len(data.value)),
                                            writeUInt8(chunk.payload.ContentType),
                                            writeUInt8(chunk.payload.ContentEncoding),
                                            payload.value>>),
                            payload.calls)
            : payload \in {encodeContent(data.value, chunk.payload.ContentEncoding)}})
        : data \in {encodePayloadData(chunk.payload.data, chunk.payload.ContentType)}})

\* Variant of encodeChunk that writes the two tag bytes at the head of the
\* chunk, before the length of the metadata.
encodeChunk_tagsFirst(chunk) ==
    IF ~Truthy(chunk.meta) \/ chunk.meta.t \notin {"object", "array", "buffer"}
    THEN Throw("Invalid chunk meta", <<>>)
    ELSE Only({
        IF data.error # "" THEN data
        ELSE Only({
            IF payload.error # "" THEN payload
            ELSE LET metaBuffer == encodeString(JSONstringify(chunk.meta))
                 IN  Return(concatBuffers(<<writeUInt8(chunk.payload.ContentType),
                                            writeUInt8(chunk.payload.ContentEncoding),
                                            writeUInt32(Len(metaBuffer)), metaBuffer,
                                            writeUInt32(Len(payload.value)),
                                            payload.value>>),
                            payload.calls)
            : payload \in {encodeContent(data.value, chunk.payload.ContentEncoding)}})
        : data \in {encodePayloadData(chunk.payload.data, chunk.payload.ContentType)}})

\* Variant of encodeChunk that writes the two tag bytes in the other order.
encodeChunk_swappedTags(chunk) ==
    IF ~Truthy(chunk.meta) \/ chunk.meta.t \notin {"object", "array", "buffer"}
    THEN Throw("Invalid chunk meta", <<>>)
    ELSE Only({
        IF data.error # "" THEN data
        ELSE Only({
            IF payload.error # "" THEN payload
            ELSE LET metaBuffer == encodeString(JSONstringify(chunk.meta))
                 IN  Return(concatBuffers(<<writeUInt32(Len(metaBuffer)), metaBuffer,
                                            writeUInt32(Len(payload.value)),
                                            writeUInt8(chunk.payload.ContentEncoding),
                                            writeUInt8(chunk.payload.ContentType),
                                            payload.value>>),
                            payload.calls)
            : payload \in {encodeContent(data.value, chunk.payload.ContentEncoding)}})
        : data \in {encodePayloadData(chunk.payload.data, chunk.payload.ContentType)}})

encodeChunk(chunk) ==
    IF ~Truthy(chunk.meta) \/ chunk.meta.t \notin {"object", "array", "buffer"}
    THEN Throw("Invalid chunk meta", <<>>)
    ELSE Only({
        IF data.error # "" THEN data
        ELSE Only({
            IF payload.error # "" THEN payload
            ELSE LET metaString == JSONstringify(chunk.meta)
                     metaBuffer == encodeString(metaString)
                     metaLengthBuffer == writeUInt32(Len(metaBuffer))
                     payloadLengthBuffer == writeUInt32(Len(payload.value))
                     contentTypeByte == writeUInt8(chunk.payload.ContentType)
                     contentEncodingByte == writeUInt8(chunk.payload.ContentEncoding)
                 IN  Return(concatBuffers(<<metaLengthBuffer, metaBuffer,
                                            payloadLengthBuffer, contentTypeByte,
                                            contentEncodingByte, payload.value>>),
                            payload.calls)
            : payload \in {encodeContent(data.value, chunk.payload.ContentEncoding)}})
        : data \in {encodePayloadData(chunk.payload.data, chunk.payload.ContentType)}})

\* Variant of decodeContent that hands on the payload as it is when there is
\* no compressor.
decodeContent_passThrough(payloadBuffer, contentEncoding) ==
    IF contentEncoding = GZIP /\ compressor # "none" THEN Call("fromGzip", payloadBuffer)
    ELSE IF contentEncoding = DEFLATE /\ compressor # "none" THEN Call("fromDeflate", payloadBuffer)
    ELSE IF contentEncoding \notin {RAW, GZIP, DEFLATE} THEN Throw("Unknown Content-Encoding", <<>>)
    ELSE Return(payloadBuffer, <<>>)

\* Content decoding of a payload.
decodeContent(payloadBuffer, contentEncoding) ==
    IF contentEncoding = GZIP
    THEN IF compressor = "none" THEN Throw("Compressor not available for decompression", <<>>)
         ELSE Call("fromGzip", payloadBuffer)
    ELSE IF contentEncoding = DEFLATE
    THEN IF compressor = "none" THEN Throw("Compressor not available for decompression", <<>>)
         ELSE Call("fromDeflate", payloadBuffer)
    ELSE IF contentEncoding # RAW THEN Throw("Unknown Content-Encoding", <<>>)
    ELSE Return(payloadBuffer, <<>>)

decodeChunk(chunkBuffer) ==
    IF Len(chunkBuffer) < 4 THEN Throw("Chunk buffer too small for meta length", <<>>)
    ELSE
    LET metaLength == readUInt32(chunkBuffer, 0)
        offset1 == 4 + metaLength
        metaBuffer == subarray(chunkBuffer, 4, offset1)
        offset2 == offset1 + 4
        offset3 == offset2 + 2
    IN  IF Len(chunkBuffer) < offset1 THEN Throw("Chunk buffer too small for metadata", <<>>)
        ELSE Only({
            IF meta.error # "" THEN meta
            ELSE IF Len(chunkBuffer) < offset1 + 4
                 THEN Throw("Chunk buffer too small for payload length", <<>>)
            ELSE IF Len(chunkBuffer) < offset2 + 2
                 THEN Throw("Chunk buffer too small for content type and encoding", <<>>)
            ELSE
            LET payloadLength == readUInt32(chunkBuffer, offset1)
                contentType == readUInt8(chunkBuffer, offset2)
                contentEncoding == readUInt8(chunkBuffer, offset2 + 1)
                payloadBuffer == subarray(chunkBuffer, offset3, offset3 + payloadLength)
            IN  IF Len(chunkBuffer) < offset3 + payloadLength
                THEN Throw("Chunk buffer too small for payload data", <<>>)
                ELSE Only({
                    IF dataBuffer.error # "" THEN dataBuffer
                    ELSE Only({
                        IF data.error # "" THEN Throw(data.error, dataBuffer.calls)
                        ELSE Return([meta |-> meta.value,
                                     payload |-> [data |-> data.value,
                                                  ContentType |-> contentType,
                                                  ContentEncoding |-> contentEncoding]],
                                    dataBuffer.calls)
                        : data \in {decodePayloadData(dataBuffer.value, contentType)}})
                    : dataBuffer \in {decodeContent(payloadBuffer, contentEncoding)}})
            : meta \in {JSONparse(decodeString(metaBuffer))}})

\* What the promise of to() or from() resolves to: a Buffer, a message, or
\* an error object made from the message of what was thrown.
Resolved(kind, value, calls) ==
    [kind |-> kind, message |-> "", value |-> value, calls |-> calls]

\* The catch clause of to() and from(): the error object is made from
\* (error as Error).message. When null was thrown, reading its message throws
\* a TypeError out of the catch clause and the promise is rejected.
Failed(kind, msg, calls) ==
    IF msg = thrownNull
    THEN [kind |-> "rejected", message |-> "Cannot read properties of null",
          value |-> <<>>, calls |-> calls]
    ELSE [kind |-> kind, message |-> msg, value |-> <<>>, calls |-> calls]

\* The for loop of to(): chunk after chunk, stopping at the first throw.
RECURSIVE encodeChunks(_, _)
encodeChunks(msg, chunkBuffers) ==
    IF msg = <<>> THEN chunkBuffers
    ELSE Only({
        LET chunkLengthBuffer == writeUInt32(Len(chunkBuffer.value))
            chunkEntryBuffer == concatBuffers(<<chunkLengthBuffer, chunkBuffer.value>>)
            calls == chunkBuffers.calls \o chunkBuffer.calls
        IN  IF chunkBuffer.error # "" THEN Throw(chunkBuffer.error, calls)
            ELSE encodeChunks(Tail(msg),
                              Return(Append(chunkBuffers.value, chunkEntryBuffer), calls))
        : chunkBuffer \in {encodeChunk(Head(msg))}})

\* Variant of shouldCompress with >= for >: a message of exactly the
\* threshold size is compressed.
shouldCompress_atThreshold(uncompressedLength) ==
    compressor # "none" /\ uncompressedLength >= maxUncompressedSize

\* Variant of shouldCompress without the test of this.compressor: an
\* oversized message is compressed whether or not there is a compressor.
shouldCompress_always(uncompressedLength) ==
    uncompressedLength > maxUncompressedSize

\* The condition of the if that applies message compression.
shouldCompress(uncompressedLength) ==
    compressor # "none" /\ uncompressedLength > maxUncompressedSize

to(msg) ==
    Only({
        IF chunkBuffers.error # ""
        THEN Failed("QSocketProtocolEncodeError", chunkBuffers.error, chunkBuffers.calls)
        ELSE Only({
            LET uncompressedLength == Len(messageData)
                compress == shouldCompress(uncompressedLength)
            IN  Only({
                LET compressedLength == Len(compressedMessageData.value)
                    compressionFlag == IF compress THEN 1 ELSE 0
                    compressionFormat == IF compress THEN GZIP ELSE RAW
                    headerBuffers ==
                        << writeUInt8(compressionFlag), writeUInt8(compressionFormat),
                           writeUInt32(uncompressedLength), writeUInt32(compressedLength) >>
                    calls == chunkBuffers.calls \o compressedMessageData.calls
                IN  IF compressedMessageData.error # ""
                    THEN Failed("QSocketProtocolEncodeError",
                                compressedMessageData.error, calls)
                    ELSE Resolved("Buffer",
                                  concatBuffers(headerBuffers
                                                    \o <<compressedMessageData.value>>),
                                  calls)
                : compressedMessageData \in
                      {IF compress THEN Call("toGzip", messageData)
                       ELSE Return(messageData, <<>>)}})
            : messageData \in {concatBuffers(chunkBuffers.value)}})
        : chunkBuffers \in {encodeChunks(msg, Return(<<>>, <<>>))}})

\* Variant of decodeChunks that ends the loop at the first chunk that fails
\* and keeps the chunks decoded before it.
RECURSIVE decodeChunks_keepDecoded(_, _, _)
decodeChunks_keepDecoded(messageData, messageOffset, acc) ==
    IF ~(messageOffset < Len(messageData))
    THEN [error |-> "", value |-> acc.value, calls |-> acc.calls, offset |-> messageOffset]
    ELSE IF Len(messageData) - messageOffset < 4
    THEN [error |-> "Insufficient data for chunk length", value |-> <<>>,
          calls |-> acc.calls, offset |-> messageOffset]
    ELSE
    LET chunkLength == readUInt32(messageData, messageOffset)
        offset1 == messageOffset + 4
        chunkBuffer == subarray(messageData, offset1, offset1 + chunkLength)
    IN  IF Len(messageData) - offset1 < chunkLength
        THEN [error |-> "Insufficient data for chunk", value |-> <<>>,
              calls |-> acc.calls, offset |-> offset1]
        ELSE Only({
            IF chunk.error # ""
            THEN [error |-> "", value |-> acc.value, calls |-> acc.calls \o chunk.calls,
                  offset |-> Len(messageData)]
            ELSE decodeChunks_keepDecoded(messageData, offset1 + chunkLength,
                                          Return(Append(acc.value, chunk.value),
                                                 acc.calls \o chunk.calls))
            : chunk \in {decodeChunk(chunkBuffer)}})

\* The while loop of from(); offset is messageOffset when the loop ends.
RECURSIVE decodeChunks(_, _, _)
decodeChunks(messageData, messageOffset, acc) ==
    IF ~(messageOffset < Len(messageData))
    THEN [error |-> "", value |-> acc.value, calls |-> acc.calls, offset |-> messageOffset]
    ELSE IF Len(messageData) - messageOffset < 4
    THEN [error |-> "Insufficient data for chunk length", value |-> <<>>,
          calls |-> acc.calls, offset |-> messageOffset]
    ELSE
    LET chunkLength == readUInt32(messageData, messageOffset)
        offset1 == messageOffset + 4
        chunkBuffer == subarray(messageData, offset1, offset1 + chunkLength)
    IN  IF Len(messageData) - offset1 < chunkLength
        THEN [error |-> "Insufficient data for chunk", value |-> <<>>,
              calls |-> acc.calls, offset |-> offset1]
        ELSE Only({
            IF chunk.error # ""
            THEN [error |-> chunk.error, value |-> <<>>, calls |-> acc.calls \o chunk.calls,
                  offset |-> offset1 + chunkLength]
            ELSE decodeChunks(messageData, offset1 + chunkLength,
                              Return(Append(acc.value, chunk.value),
                                     acc.calls \o chunk.calls))
            : chunk \in {decodeChunk(chunkBuffer)}})

\* Variant of decompress that takes every format but DEFLATE as GZIP.
decompress_defaultGzip(compressionFlag, compressionFormat, compressedMessageData, uncompressedLength) ==
    IF compressionFlag = 1
    THEN IF compressor = "none"
         THEN Throw("Compressor not available for decompression", <<>>)
         ELSE Only({
             IF messageData.error # "" THEN messageData
             ELSE IF Len(messageData.value) # uncompressedLength
             THEN Throw("Uncompressed data length mismatch after decompression",
                        messageData.calls)
             ELSE messageData
             : messageData \in
                   {Call(IF compressionFormat = DEFLATE THEN "fromDeflate" ELSE "fromGzip",
                         compressedMessageData)}})
    ELSE IF Len(compressedMessageData) # uncompressedLength
         THEN Throw("Uncompressed data length mismatch", <<>>)
         ELSE Return(compressedMessageData, <<>>)

\* Variant of decompress that does not compare the length of the message
\* data with the declared uncompressed length.
decompress_unchecked(compressionFlag, compressionFormat, compressedMessageData, uncompressedLength) ==
    IF compressionFlag = 1
    THEN IF compressor = "none"
         THEN Throw("Compressor not available for decompression", <<>>)
         ELSE IF compressionFormat \notin {GZIP, DEFLATE}
         THEN Throw("Unknown compression format", <<>>)
         ELSE Call(IF compressionFormat = GZIP THEN "fromGzip" ELSE "fromDeflate",
                   compressedMessageData)
    ELSE Return(compressedMessageData, <<>>)

\* Variant of decompress that calls fromGzip for both known formats.
decompress_alwaysGzip(compressionFlag, compressionFormat, compressedMessageData, uncompressedLength) ==
    IF compressionFlag = 1
    THEN IF compressor = "none"
         THEN Throw("Compressor not available for decompression", <<>>)
         ELSE IF compressionFormat \notin {GZIP, DEFLATE}
         THEN Throw("Unknown compression format", <<>>)
         ELSE Only({
             IF messageData.error # "" THEN messageData
             ELSE IF Len(messageData.value) # uncompressedLength
             THEN Throw("Uncompressed data length mismatch after decompression",
                        messageData.calls)
             ELSE messageData
             : messageData \in {Call("fromGzip", compressedMessageData)}})
    ELSE IF Len(compressedMessageData) # uncompressedLength
         THEN Throw("Uncompressed data length mismatch", <<>>)
         ELSE Return(compressedMessageData, <<>>)

\* Variant of decompress that takes every flag byte but 0 as set.
decompress_flagNonzero(compressionFlag, compressionFormat, compressedMessageData, uncompressedLength) ==
    IF compressionFlag # 0
    THEN IF compressor = "none"
         THEN Throw("Compressor not available for decompression", <<>>)
         ELSE IF compressionFormat \notin {GZIP, DEFLATE}
         THEN Throw("Unknown compression format", <<>>)
         ELSE Only({
             IF messageData.error # "" THEN messageData
             ELSE IF Len(messageData.value) # uncompressedLength
             THEN Throw("Uncompressed data length mismatch after decompression",
                        messageData.calls)
             ELSE messageData
             : messageData \in
                   {Call(IF compressionFormat = GZIP THEN "fromGzip" ELSE "fromDeflate",
                         compressedMessageData)}})
    ELSE IF Len(compressedMessageData) # uncompressedLength
         THEN Throw("Uncompressed data length mismatch", <<>>)
         ELSE Return(compressedMessageData, <<>>)

\* Decompression of the message data, and the check of its declared length.
decompress(compressionFlag, compressionFormat, compressedMessageData, uncompressedLength) ==
    IF compressionFlag = 1
    THEN IF compressor = "none"
         THEN Throw("Compressor not available for decompression", <<>>)
         ELSE IF compressionFormat \notin {GZIP, DEFLATE}
         THEN Throw("Unknown compression format", <<>>)
         ELSE Only({
             IF messageData.error # "" THEN messageData
             ELSE IF Len(messageData.value) # uncompressedLength
             THEN Throw("Uncompressed data length mismatch after decompression",
                        messageData.calls)
             ELSE messageData
             : messageData \in
                   {Call(IF compressionFormat = GZIP THEN "fromGzip" ELSE "fromDeflate",
                         compressedMessageData)}})
    ELSE IF Len(compressedMessageData) # uncompressedLength
         THEN Throw("Uncompressed data length mismatch", <<>>)
         ELSE Return(compressedMessageData, <<>>)

\* from() once the buffer is known to hold a header.
decodeMessage(buf) ==
    LET compressionFlag == readUInt8(buf, 0)
        compressionFormat == readUInt8(buf, 1)
        uncompressedLength == readUInt32(buf, 2)
        compressedLength == readUInt32(buf, 6)
        offset == 10
        compressedMessageData == subarray(buf, offset, offset + compressedLength)
    IN  IF Len(buf) < offset + compressedLength
        THEN Failed("QSocketProtocolDecodeError", "Buffer too small for compressed data", <<>>)
        ELSE IF Len(compressedMessageData) # compressedLength
        THEN Failed("QSocketProtocolDecodeError", "Compressed data length mismatch", <<>>)
        ELSE Only({
            IF messageData.error # ""
            THEN Failed("QSocketProtocolDecodeError", messageData.error, messageData.calls)
            ELSE Only({
                IF chunks.error # ""
                THEN Failed("QSocketProtocolDecodeError", chunks.error, chunks.calls)
                ELSE IF chunks.offset # Len(messageData.value)
                THEN Failed("QSocketProtocolDecodeError",
                            "Extra data after message parsing", chunks.calls)
                ELSE Resolved("Message", chunks.value, chunks.calls)
                : chunks \in {decodeChunks(messageData.value, 0,
                                           Return(<<>>, messageData.calls))}})
            : messageData \in {decompress(compressionFlag, compressionFormat,
                                          compressedMessageData, uncompressedLength)}})

\* Variant of from that reports a short buffer as short of message data.
from_otherMessage(buf) ==
    IF Len(buf) < 10
    THEN Failed("QSocketProtocolDecodeError", "Buffer too small for compressed data", <<>>)
    ELSE decodeMessage(buf)

\* Variant of from that takes a buffer too short for a header as the
\* message without chunks.
from_shortAsEmpty(buf) ==
    IF Len(buf) < 10
    THEN Resolved("Message", <<>>, <<>>)
    ELSE decodeMessage(buf)

from(buf) ==
    IF Len(buf) < 10
    THEN Failed("QSocketProtocolDecodeError", "Buffer too small to contain header", <<>>)
    ELSE decodeMessage(buf)

\* ------------------------------------------------------------- the inputs

MaxChunks == 2
MaxStringLength == 1
MaxBufferLength == 1
MaxNumber == 1
BoundaryThreshold == 36

DefaultMaxUncompressedSize == 10240

Compressors == {"none", "zlib"}

\* 0 forces message compression, the default never compresses a message of
\* the model, and the two boundary values lie among the sizes of its
\* one-chunk messages.
Thresholds == {0, BoundaryThreshold, BoundaryThreshold + 1, DefaultMaxUncompressedSize}

ContentTypes ==
    {CT_UNDEFINED, CT_NULL, CT_BOOLEAN, CT_NUMBER, CT_STRING, CT_JSON, CT_BUFFER}

ContentEncodings == {RAW, GZIP, DEFLATE}

\* Tags outside the enumeration: the next free value, one that equals
\* CT_STRING modulo 256, and the 999 of the tests.
UnknownContentTypes == {7, 260, 999}

SeqsUpTo(alphabet, n) == UNION {[1..k -> alphabet] : k \in 0..n}

\* "a" and "e" with an acute accent, which takes two bytes in UTF-8.
Strings == SeqsUpTo({97, 233}, MaxStringLength)

Buffers == SeqsUpTo({0, 255}, MaxBufferLength)

K_type == <<116, 121, 112, 101>>
K_uuid == <<117, 117, 105, 100>>
K_namespace == <<110, 97, 109, 101, 115, 112, 97, 99, 101>>
K_event == <<101, 118, 101, 110, 116>>

\* IQSocketProtocolMessageMetaData / ...MetaControl / ...MetaAck
MetaData == JsObject(<< <<K_type, JsNumber(DATA)>>, <<K_uuid, JsString(<<117, 49>>)>>,
                        <<K_namespace, JsString(<<110, 115>>)>>,
                        <<K_event, JsString(<<101, 118>>)>> >>)

MetaControl == JsObject(<< <<K_type, JsNumber(CONTROL)>>, <<K_uuid, JsString(<<117, 50>>)>>,
                           <<K_namespace, JsString(<<110, 115>>)>> >>)

MetaAck == JsObject(<< <<K_type, JsNumber(ACK)>>, <<K_uuid, JsString(<<117>>)>> >>)

Metas == {MetaData, MetaControl, MetaAck}

JsonValues ==
    { JsObject(<< <<(<<107>>), JsArray(<<JsNumber(1), JsBoolean(FALSE)>>)>> >>),
      JsArray(<<JsString(<<97, 34>>), JsNull>>),
      JsNull }

\* The payload values, each with the content type that names its runtime type.
TypedData ==
    {<<CT_UNDEFINED, JsUndefined>>, <<CT_NULL, JsNull>>}
        \cup {<<CT_BOOLEAN, JsBoolean(b)>> : b \in {TRUE, FALSE}}
        \cup {<<CT_NUMBER, JsNumber(n)>> : n \in (0 - MaxNumber)..MaxNumber}
        \cup {<<CT_STRING, JsString(str)>> : str \in Strings}
        \cup {<<CT_JSON, j>> : j \in JsonValues}
        \cup {<<CT_BUFFER, JsBuffer(b)>> : b \in Buffers}

Chunk(meta, data, contentType, contentEncoding) ==
    [meta |-> meta,
     payload |-> [data |-> data, ContentType |-> contentType,
                  ContentEncoding |-> contentEncoding]]

ValidChunks ==
    {Chunk(m, td[2], td[1], ce) : m \in Metas, td \in TypedData, ce \in ContentEncodings}

UnknownTypeChunks ==
    {Chunk(MetaAck, JsString(<<97>>), ct, ce) : ct \in UnknownContentTypes, ce \in {RAW, GZIP}}

\* The chunks of the messages of several chunks: pairwise different, of
\* different sizes, with every meta variant and every content encoding, and
\* one with an unknown content type.
SeqChunks ==
    { Chunk(MetaData, JsString(<<97>>), CT_STRING, RAW),
      Chunk(MetaAck, JsBoolean(TRUE), CT_BOOLEAN, GZIP),
      Chunk(MetaControl, JsBuffer(<<255, 255, 255>>), CT_BUFFER, DEFLATE),
      Chunk(MetaAck, JsNumber(-1), CT_NUMBER, RAW),
      Chunk(MetaAck, JsString(<<97>>), 999, RAW) }

SeqsOver(set, lo, hi) == UNION {[1..k -> set] : k \in lo..hi}

\* The arguments of to(): the empty message, every message of one chunk, and
\* the messages of 2..MaxChunks chunks over SeqChunks.
Messages ==
    {<<>>} \cup {<<c>> : c \in ValidChunks \cup UnknownTypeChunks}
           \cup SeqsOver(SeqChunks, 2, MaxChunks)

IsValidChunk(chunk) ==
    /\ chunk.meta \in Metas
    /\ <<chunk.payload.ContentType, chunk.payload.data>> \in TypedData
    /\ chunk.payload.ContentEncoding \in ContentEncodings

IsValidMessage(msg) == \A i \in 1..Len(msg) : IsValidChunk(msg[i])

\* ------------------------------------------------------ the state machine

NoResult == Failed("none", "", <<>>)

NoEdit == [op |-> "none", field |-> "", chunk |-> 0, delta |-> 0]

\* The calls that can be in flight on one instance at a time, and the locals
\* of a call: its argument, where it stands, the chunks it has begun, what
\* it has pushed (chunkBuffers of to(), message of from()), messageData and
\* messageOffset of from(), the compressor operations it awaits, those it
\* has invoked, and what it has returned.
MaxCalls == 2

CallIds == 1..MaxCalls

NoCall ==
    [op |-> "none", argument |-> <<>>, at |-> "idle", started |-> 0, pushed |-> <<>>,
     messageData |-> <<>>, messageOffset |-> 0, pending |-> {}, calls |-> <<>>,
     result |-> NoResult]

NoCalls == [c \in CallIds |-> NoCall]

\* new QSocketProtocol(compressor, maxUncompressedSize)
Init ==
    /\ compressor \in Compressors
    /\ maxUncompressedSize \in Thresholds
    /\ message = <<>>
    /\ encoded = NoResult
    /\ buffer = <<>>
    /\ edit = NoEdit
    /\ decoded = NoResult
    /\ pc = "idle"
    /\ inflight = NoCalls
    /\ turns = [c \in CallIds |-> 0]

\* await protocol.to(msg)
To(msg) ==
    /\ pc = "idle"
    /\ message' = msg
    /\ encoded' = to(msg)
    /\ buffer' = encoded'.value
    /\ edit' = NoEdit
    /\ pc' = "encoded"
    /\ UNCHANGED <<inflight, turns, compressor, maxUncompressedSize, decoded>>

\* The buffer goes to another instance, constructed with or without a
\* compressor (new QSocketProtocol(c, maxUncompressedSize)).
Construct(c) ==
    /\ pc = "encoded"
    /\ encoded.kind = "Buffer"
    /\ c # compressor
    /\ compressor' = c
    /\ pc' = "handed"
    /\ UNCHANGED <<inflight, turns, maxUncompressedSize, message, encoded, buffer, edit, decoded>>

\* await protocol.from(buffer)
From ==
    /\ pc \in {"encoded", "handed"}
    /\ encoded.kind = "Buffer"
    /\ decoded' = from(buffer)
    /\ pc' = "decoded"
    /\ UNCHANGED <<inflight, turns, compressor, maxUncompressedSize, message, encoded, buffer, edit>>

Next ==
    \/ \E msg \in Messages : To(msg)
    \/ \E c \in Compressors : Construct(c)
    \/ From

Spec == Init /\ [][Next]_vars

\* ------------------------------------------- buffers changed in transit

\* The chunks of the messages whose buffers are changed: every payload
\* value under every content encoding with the shortest meta, the chunks of
\* the longer messages, and the chunks with an unknown content type.
WireChunks ==
    {Chunk(MetaAck, td[2], td[1], ce) : td \in TypedData, ce \in ContentEncodings}
        \cup SeqChunks \cup UnknownTypeChunks

WireMessages == {<<c>> : c \in WireChunks} \cup SeqsOver(SeqChunks, 2, MaxChunks)

\* Content-type bytes outside the enumeration; 231 is what writing 999 into
\* a byte leaves.
UnknownTagBytes == {7, 231, 255}

\* The message data a well-formed buffer carries, and the buffer that carries
\* other message data under the same flag and format.
MessageDataOf(buf) ==
    IF buf[1] = 1 THEN fromGzip(SubSeq(buf, 11, Len(buf))).value
    ELSE SubSeq(buf, 11, Len(buf))

WithMessageData(buf, data) ==
    IF buf[1] = 1
    THEN SubSeq(buf, 1, 6) \o writeUInt32(Len(toGzip(data))) \o toGzip(data)
    ELSE SubSeq(buf, 1, 10) \o data

Patch(data, offset, bytes) ==
    [i \in 1..Len(data) |->
        IF i > offset /\ i <= offset + Len(bytes) THEN bytes[i - offset] ELSE data[i]]

\* Offset in the message data of the length prefix of chunk i.
RECURSIVE ChunkOffset(_, _)
ChunkOffset(data, i) ==
    IF i = 1 THEN 0
    ELSE LET o == ChunkOffset(data, i - 1) IN o + 4 + readUInt32(data, o)

\* Offset in the message data of a field of chunk i.
FieldOffset(data, i, field) ==
    LET o == ChunkOffset(data, i)
        metaLength == readUInt32(data, o + 4)
    IN  CASE field = "chunk" -> o
          [] field = "meta" -> o + 4
          [] field = "payload" -> o + 8 + metaLength
          [] field = "contentType" -> o + 12 + metaLength

Edited(op, field, chunk, delta) ==
    [op |-> op, field |-> field, chunk |-> chunk, delta |-> delta]

CanEdit ==
    /\ pc = "encoded"
    /\ encoded.kind = "Buffer"
    /\ edit = NoEdit

\* Only the first k bytes arrive.
Truncate(k) ==
    /\ CanEdit
    /\ k < Len(buffer)
    /\ buffer' = SubSeq(buffer, 1, k)
    /\ edit' = Edited("truncate", "", 0, k)
    /\ UNCHANGED <<inflight, turns, compressor, maxUncompressedSize, message, encoded, decoded, pc>>

\* A byte follows the message.
Extend(b) ==
    /\ CanEdit
    /\ buffer' = Append(buffer, b)
    /\ edit' = Edited("extend", "", 0, b)
    /\ UNCHANGED <<inflight, turns, compressor, maxUncompressedSize, message, encoded, decoded, pc>>

\* A length field of the header declares delta bytes more than there are.
SetHeaderLength(field, delta) ==
    /\ CanEdit
    /\ LET offset == IF field = "uncompressed" THEN 2 ELSE 6
           declared == readUInt32(buffer, offset) + delta
       IN  /\ declared >= 0
           /\ buffer' = Patch(buffer, offset, writeUInt32(declared))
    /\ edit' = Edited("length", field, 0, delta)
    /\ UNCHANGED <<inflight, turns, compressor, maxUncompressedSize, message, encoded, decoded, pc>>

\* A length field of chunk i declares delta bytes more than there are.
SetChunkLength(field, i, delta) ==
    /\ CanEdit
    /\ i <= Len(message)
    /\ LET data == MessageDataOf(buffer)
           offset == FieldOffset(data, i, field)
           declared == readUInt32(data, offset) + delta
       IN  /\ declared >= 0
           /\ buffer' = WithMessageData(buffer, Patch(data, offset, writeUInt32(declared)))
    /\ edit' = Edited("length", field, i, delta)
    /\ UNCHANGED <<inflight, turns, compressor, maxUncompressedSize, message, encoded, decoded, pc>>

\* The content-type byte of chunk i is overwritten, as the test
\* 'should return DecodeError for unknown content type during decoding' does.
SetContentType(i, tag) ==
    /\ CanEdit
    /\ i <= Len(message)
    /\ LET data == MessageDataOf(buffer)
           offset == FieldOffset(data, i, "contentType")
       IN  buffer' = WithMessageData(buffer, Patch(data, offset, writeUInt8(tag)))
    /\ edit' = Edited("contentType", "", i, tag)
    /\ UNCHANGED <<inflight, turns, compressor, maxUncompressedSize, message, encoded, decoded, pc>>

\* The content-type byte of chunk i names another of the seven content types
\* than the one the payload was encoded under.
Retag(i, tag) ==
    /\ CanEdit
    /\ i <= Len(message)
    /\ LET data == MessageDataOf(buffer)
           offset == FieldOffset(data, i, "contentType")
       IN  /\ data[offset + 1] # tag
           /\ buffer' = WithMessageData(buffer, Patch(data, offset, writeUInt8(tag)))
    /\ edit' = Edited("retag", "", i, tag)
    /\ UNCHANGED <<inflight, turns, compressor, maxUncompressedSize, message, encoded, decoded, pc>>

\* The content-encoding byte of chunk i is overwritten, as the test 'should
\* throw error in decodeChunk for unknown Content-Encoding' does.
SetContentEncoding(i, tag) ==
    /\ CanEdit
    /\ i <= Len(message)
    /\ LET data == MessageDataOf(buffer)
           offset == FieldOffset(data, i, "contentType") + 1
       IN  buffer' = WithMessageData(buffer, Patch(data, offset, writeUInt8(tag)))
    /\ edit' = Edited("contentEncoding", "", i, tag)
    /\ UNCHANGED <<inflight, turns, compressor, maxUncompressedSize, message, encoded, decoded, pc>>

\* The compression flag and format of the header are overwritten, as the
\* test 'should return DecodeError for unknown compression format' does.
SetCompression(flag, format) ==
    /\ CanEdit
    /\ <<flag, format>> # <<buffer[1], buffer[2]>>
    /\ buffer' = Patch(buffer, 0, <<flag, format>>)
    /\ edit' = Edited("compression", "", flag, format)
    /\ UNCHANGED <<inflight, turns, compressor, maxUncompressedSize, message, encoded, decoded, pc>>

\* The message arrives as a codec sends it whose compressor deflates: the
\* message data DEFLATE-compressed under format byte DEFLATE, as the test
\* 'should correctly encode and decode messages compressed with DEFLATE'
\* builds it.
SendDeflated ==
    /\ CanEdit
    /\ LET data == MessageDataOf(buffer)
       IN  buffer' = <<1, DEFLATE>> \o writeUInt32(Len(data))
                         \o writeUInt32(Len(toDeflate(data))) \o toDeflate(data)
    /\ edit' = Edited("deflate", "", 0, 0)
    /\ UNCHANGED <<inflight, turns, compressor, maxUncompressedSize, message, encoded, decoded, pc>>

\* Format bytes outside the enumeration.
UnknownFormatBytes == {3, 255}

\* Values of the compression flag byte: unset, set, and two that are neither.
FlagBytes == {0, 1, 2, 255}

InitWire ==
    /\ Init
    /\ maxUncompressedSize \in {0, DefaultMaxUncompressedSize}

NextWire ==
    \/ \E msg \in WireMessages : To(msg)
    \/ \E k \in 0..(Len(buffer) - 1) : Truncate(k)
    \/ \E b \in {0, 255} : Extend(b)
    \/ \E field \in {"uncompressed", "compressed"}, delta \in {-1, 1} :
           SetHeaderLength(field, delta)
    \/ \E field \in {"chunk", "meta", "payload"}, i \in 1..MaxChunks, delta \in {-1, 1} :
           SetChunkLength(field, i, delta)
    \/ \E i \in 1..MaxChunks, tag \in UnknownTagBytes : SetContentType(i, tag)
    \/ \E i \in 1..MaxChunks, tag \in ContentTypes : Retag(i, tag)
    \/ \E i \in 1..MaxChunks, tag \in UnknownFormatBytes : SetContentEncoding(i, tag)
    \/ \E flag \in FlagBytes, format \in ContentEncodings \cup UnknownFormatBytes :
           SetCompression(flag, format)
    \/ SendDeflated
    \/ From

SpecWire == InitWire /\ [][NextWire]_vars

\* ------------------------------------- arguments outside the declared types

\* Content-Encoding values outside the enumeration; 256 is RAW modulo 256 and
\* 999 is what the test 'should handle unknown Content-Encoding in
\* encodeChunk' passes.
UnknownContentEncodings == {3, 256, 999}

\* Values of meta that are absent or no object.
InvalidMetas ==
    {JsUndefined, JsNull, JsString(<<97>>), JsNumber(0), JsNumber(1), JsBoolean(TRUE)}

\* Values of data that are no byte sequence, under the tag BUFFER.
NotBuffers ==
    {JsString(<<97>>), JsString(<<50>>), JsNumber(2), JsNumber(-1), JsObject(<<>>),
     JsBoolean(TRUE), JsNull}

UnknownEncodingChunks ==
    {Chunk(MetaAck, td[2], td[1], ce) :
         td \in {<<CT_STRING, JsString(<<97>>)>>, <<CT_NULL, JsNull>>, <<999, JsString(<<97>>)>>},
         ce \in UnknownContentEncodings}

InvalidMetaChunks ==
    {Chunk(meta, JsString(<<97>>), CT_STRING, ce) :
         meta \in InvalidMetas, ce \in {RAW, GZIP}}

MistypedBufferChunks ==
    {Chunk(MetaAck, data, CT_BUFFER, ce) : data \in NotBuffers, ce \in {RAW, GZIP}}

\* Data that is neither undefined nor null under the tags UNDEFINED and NULL.
MistaggedChunks ==
    {Chunk(MetaAck, data, ct, ce) :
         data \in {JsString(<<97>>), JsNumber(1)}, ct \in {CT_UNDEFINED, CT_NULL},
         ce \in {RAW, GZIP}}

\* The chunks of the messages of several chunks: two valid ones, one of them
\* compressed, and one of each kind of misuse.
MisuseSeqChunks ==
    { Chunk(MetaAck, JsBoolean(TRUE), CT_BOOLEAN, GZIP),
      Chunk(MetaData, JsBuffer(<<255>>), CT_BUFFER, RAW),
      Chunk(MetaAck, JsString(<<97>>), CT_STRING, 999),
      Chunk(JsUndefined, JsString(<<97>>), CT_STRING, GZIP),
      Chunk(MetaAck, JsNumber(2), CT_BUFFER, RAW) }

MisuseMessages ==
    {<<c>> : c \in UnknownEncodingChunks \cup InvalidMetaChunks \cup MistypedBufferChunks
                       \cup MistaggedChunks \cup SeqChunks}
        \cup SeqsOver(MisuseSeqChunks, 2, MaxChunks)

InitMisuse ==
    /\ Init
    /\ maxUncompressedSize \in {0, DefaultMaxUncompressedSize}

NextMisuse ==
    \/ \E msg \in MisuseMessages : To(msg)
    \/ \E c \in Compressors : Construct(c)
    \/ \E i \in 1..MaxChunks, tag \in UnknownFormatBytes : SetContentEncoding(i, tag)
    \/ \E i \in 1..MaxChunks, tag \in ContentTypes : Retag(i, tag)
    \/ From

SpecMisuse == InitMisuse /\ [][NextMisuse]_vars

\* ------------------------------------------------- storage of the buffers

\* The part of the input of from() that the data of chunk i of the returned
\* message is a view of. With flag 1 the message data is the compressor's
\* output; otherwise it is buffer.subarray(...), the chunk and its payload
\* are subarrays of it, a RAW payload is handed on as it is and a BUFFER
\* payload is returned as it is: the data is then the bytes of the input
\* from offset on, not a copy of them.
InputView(buf, i) ==
    IF buf[1] = 1 THEN [shared |-> FALSE, offset |-> 0, length |-> 0]
    ELSE LET data == SubSeq(buf, 11, Len(buf))
             o == FieldOffset(data, i, "contentType")
         IN  [shared |-> data[o + 1] = CT_BUFFER /\ data[o + 2] = RAW,
              offset |-> 10 + o + 2,
              length |-> readUInt32(data, FieldOffset(data, i, "payload"))]

\* The message from() returned, as it reads once the input holds bytes: the
\* data that is a view of the input shows what the input holds now.
SeenThrough(result, before, bytes) ==
    IF result.kind # "Message" THEN result
    ELSE [result EXCEPT !.value =
             [i \in 1..Len(result.value) |->
                 Only({IF view.shared
                       THEN [result.value[i] EXCEPT !.payload.data =
                                JsBuffer(SubSeq(bytes, view.offset + 1,
                                                view.offset + view.length))]
                       ELSE result.value[i]
                       : view \in {InputView(before, i)}})]]

\* After from() has returned, the caller writes a byte of the buffer it had
\* passed, for instance to use the buffer for the next message.
WriteInput(k) ==
    /\ pc = "decoded"
    /\ k \in 1..Len(buffer)
    /\ buffer' = Patch(buffer, k - 1, <<(buffer[k] + 1) % 256>>)
    /\ decoded' = SeenThrough(decoded, buffer, buffer')
    /\ pc' = "written"
    /\ UNCHANGED <<inflight, turns, compressor, maxUncompressedSize, message, encoded, edit>>

\* After to() has returned, the caller writes the first byte of the BUFFER
\* payload of chunk i of the message it had passed. concatBuffers has copied
\* the payload, so the buffer to() returned keeps its bytes.
WriteArgument(i) ==
    /\ CanEdit
    /\ i <= Len(message)
    /\ message[i].payload.data.t = "buffer"
    /\ message[i].payload.data.bytes # <<>>
    /\ message' = [message EXCEPT ![i].payload.data.bytes[1] = (@ + 1) % 256]
    /\ edit' = Edited("argument", "", i, message[i].payload.data.bytes[1])
    /\ UNCHANGED <<inflight, turns, compressor, maxUncompressedSize, encoded, buffer, decoded, pc>>

AliasChunks ==
    {Chunk(MetaAck, JsBuffer(bytes), CT_BUFFER, ce) :
         bytes \in Buffers \cup {<<255, 255, 255>>}, ce \in ContentEncodings}

AliasSeqChunks ==
    { Chunk(MetaData, JsString(<<97>>), CT_STRING, RAW),
      Chunk(MetaAck, JsBuffer(<<1, 2>>), CT_BUFFER, RAW),
      Chunk(MetaAck, JsBuffer(<<3>>), CT_BUFFER, GZIP) }

AliasMessages == {<<c>> : c \in AliasChunks} \cup SeqsOver(AliasSeqChunks, 2, MaxChunks)

NextAlias ==
    \/ \E msg \in AliasMessages : To(msg)
    \/ \E i \in 1..MaxChunks : WriteArgument(i)
    \/ From
    \/ \E k \in 1..Len(buffer) : WriteInput(k)

SpecAlias == InitWire /\ [][NextAlias]_vars

\* ---------------------------------------------- compressors that fail

\* Compressors whose four operations fail: with an Error, or with null.
FaultyCompressors == {"throwsError", "throwsNull"}

InitFaulty ==
    /\ compressor \in Compressors \cup FaultyCompressors
    /\ maxUncompressedSize \in {0, DefaultMaxUncompressedSize}
    /\ message = <<>>
    /\ encoded = NoResult
    /\ buffer = <<>>
    /\ edit = NoEdit
    /\ decoded = NoResult
    /\ pc = "idle"
    /\ inflight = NoCalls
    /\ turns = [c \in CallIds |-> 0]

NextFaulty ==
    \/ \E msg \in MisuseMessages : To(msg)
    \/ \E c \in Compressors \cup FaultyCompressors : Construct(c)
    \/ From

SpecFaulty == InitFaulty /\ [][NextFaulty]_vars

\* ------------------------------------------------------------- properties

\* The concatenated chunk blocks of a message, each a 4-byte length and the
\* encoded chunk: what to() measures against maxUncompressedSize.
ChunkBlocks(msg) == encodeChunks(msg, Return(<<>>, <<>>))

SerializedSize(msg) == Len(concatBuffers(ChunkBlocks(msg).value))

\* The content-encoding byte of chunk i of uncompressed message data.
ContentEncodingByte(data, i) == data[FieldOffset(data, i, "contentType") + 2]

\* A buffer of to() needs decompression: its compression flag is 1, or one
\* of its chunks carries the GZIP or DEFLATE byte.
NeedsDecompression(buf, chunks) ==
    \/ buf[1] = 1
    \/ \E i \in 1..chunks :
           ContentEncodingByte(SubSeq(buf, 11, Len(buf)), i) \in {GZIP, DEFLATE}

\* from() is applied to the buffer to() returned, unchanged.
DecodedUnchanged == pc = "decoded" /\ edit = NoEdit

C2_ThresholdBoundary ==
    (pc = "encoded" /\ compressor = "zlib" /\ encoded.kind = "Buffer")
        => encoded.value[1] =
               (IF SerializedSize(message) > maxUncompressedSize THEN 1 ELSE 0)

\* A message of exactly the threshold size was encoded and is not compressed.
C2_Witness ==
    /\ pc = "encoded"
    /\ compressor = "zlib"
    /\ encoded.kind = "Buffer"
    /\ Len(message) >= 1
    /\ SerializedSize(message) = maxUncompressedSize
    /\ encoded.value[1] = 0

\* C3 as the specification states it: without a compressor, to() returns an
\* EncodeError for a message whose chunk blocks are longer than
\* maxUncompressedSize.
C3_OversizeIsEncodeError ==
    (pc = "encoded" /\ compressor = "none" /\ ChunkBlocks(message).error = ""
         /\ SerializedSize(message) > maxUncompressedSize)
        => encoded.kind = "QSocketProtocolEncodeError"

\* C3 as the code has it: without a compressor, a message whose chunks
\* encode and whose chunk blocks are longer than maxUncompressedSize is
\* returned uncompressed: flag 0, format RAW, both lengths the size of the
\* chunk blocks, then the chunk blocks.
C3_OversizeIsSentRaw ==
    (pc = "encoded" /\ compressor = "none" /\ ChunkBlocks(message).error = ""
         /\ SerializedSize(message) > maxUncompressedSize)
        => /\ encoded.kind = "Buffer"
           /\ encoded.value =
                  <<0, RAW>> \o writeUInt32(SerializedSize(message))
                      \o writeUInt32(SerializedSize(message))
                      \o concatBuffers(ChunkBlocks(message).value)
           /\ encoded.calls = <<>>

\* A message larger than the threshold was encoded without a compressor.
C3_Witness ==
    /\ pc = "encoded"
    /\ compressor = "none"
    /\ Len(message) >= 1
    /\ SerializedSize(message) > maxUncompressedSize
    /\ encoded.kind = "Buffer"

\* The first chunk of a message that asks for GZIP or DEFLATE (0 if none).
FirstCompressed(msg) ==
    LET S == {i \in 1..Len(msg) : msg[i].payload.ContentEncoding \in {GZIP, DEFLATE}}
    IN  IF S = {} THEN 0 ELSE CHOOSE i \in S : \A j \in S : i <= j

\* C4: without a compressor, to() returns an EncodeError for every message
\* with a GZIP or DEFLATE chunk, whatever its size and its other chunks; when
\* the chunks are otherwise valid the error is 'Compressor not available for
\* GZIP encoding' or '... DEFLATE encoding', after the first such chunk.
C4_EncodingNeedsCompressor ==
    (pc = "encoded" /\ compressor = "none" /\ FirstCompressed(message) # 0)
        => /\ encoded.kind = "QSocketProtocolEncodeError"
           /\ encoded.value = <<>>
           /\ IsValidMessage(message) =>
                  encoded.message =
                      (IF message[FirstCompressed(message)].payload.ContentEncoding = GZIP
                       THEN "Compressor not available for GZIP encoding"
                       ELSE "Compressor not available for DEFLATE encoding")

\* A small message whose second chunk is DEFLATE encoded, after a RAW chunk,
\* was refused.
C4_Witness ==
    /\ pc = "encoded"
    /\ compressor = "none"
    /\ Len(message) >= 2
    /\ message[1].payload.ContentEncoding = RAW
    /\ message[2].payload.ContentEncoding = DEFLATE
    /\ SerializedSize(<<message[1]>>) < maxUncompressedSize
    /\ encoded.message = "Compressor not available for DEFLATE encoding"

\* C5: a codec without a compressor, given a buffer of to() that needs
\* decompression, returns the DecodeError 'Compressor not available for
\* decompression' and no chunk.
C5_DecodingNeedsCompressor ==
    (DecodedUnchanged /\ compressor = "none" /\ NeedsDecompression(buffer, Len(message)))
        => decoded = Failed("QSocketProtocolDecodeError",
                            "Compressor not available for decompression", <<>>)

\* An uncompressed message whose first chunk is RAW and whose second chunk
\* is GZIP encoded was refused by a codec without a compressor.
C5_Witness ==
    /\ DecodedUnchanged
    /\ compressor = "none"
    /\ buffer[1] = 0
    /\ Len(message) >= 2
    /\ message[1].payload.ContentEncoding = RAW
    /\ message[2].payload.ContentEncoding = GZIP
    /\ decoded.message = "Compressor not available for decompression"

\* C6: from() on a buffer of fewer than 10 bytes returns the DecodeError
\* 'Buffer too small to contain header' and invokes no compressor operation.
C6_HeaderTooSmall ==
    (pc = "decoded" /\ Len(buffer) < 10)
        => decoded = Failed("QSocketProtocolDecodeError",
                            "Buffer too small to contain header", <<>>)

\* The first 9 bytes of a compressed message were given to a codec with a
\* compressor.
C6_Witness ==
    /\ pc = "decoded"
    /\ Len(buffer) = 9
    /\ buffer[1] = 1
    /\ compressor = "zlib"
    /\ decoded.message = "Buffer too small to contain header"

\* C7: truncation. from() returns a DecodeError, and no chunk, for every
\* proper prefix of a buffer to() returned for a message of at least one
\* chunk.
C7_Truncation ==
    (pc = "decoded" /\ edit.op = "truncate" /\ Len(message) >= 1)
        => (decoded.kind = "QSocketProtocolDecodeError" /\ decoded.value = <<>>)

\* A prefix that holds the header and the whole first chunk of a message of
\* two chunks was refused.
C7_Witness ==
    /\ pc = "decoded"
    /\ edit.op = "truncate"
    /\ Len(message) >= 2
    /\ encoded.value[1] = 0
    /\ Len(buffer) >= 10 + SerializedSize(<<message[1]>>)
    /\ decoded.kind = "QSocketProtocolDecodeError"

\* C8 as the specification states it: from() returns a DecodeError for every
\* buffer one of whose length fields is one more or one less than the length
\* of what it describes.
C8_LengthFieldExactness ==
    (pc = "decoded" /\ edit.op = "length") => decoded.kind = "QSocketProtocolDecodeError"

\* C9 as the specification states it: from() returns a DecodeError for every
\* buffer that goes on after the declared message.
C9_TrailingBytes ==
    (pc = "decoded" /\ edit.op = "extend") => decoded.kind = "QSocketProtocolDecodeError"

\* C10: the content-type tag space is closed. to() returns an EncodeError for
\* every message with a chunk whose Content-Type is none of the seven tags,
\* also one that equals a tag modulo 256; from() returns a DecodeError and no
\* chunk for every buffer of to() in which the content-type byte of a chunk
\* was changed to none of the seven tags.
C10_ClosedContentTypes ==
    /\ (pc # "idle" /\ \E i \in 1..Len(message) :
                           message[i].payload.ContentType \notin ContentTypes)
           => (encoded.kind = "QSocketProtocolEncodeError" /\ encoded.value = <<>>)
    /\ (pc = "decoded" /\ edit.op = "contentType")
           => (decoded.kind = "QSocketProtocolDecodeError" /\ decoded.value = <<>>)

\* A chunk tagged 260, which is STRING modulo 256, was refused by to().
C10_Witness ==
    /\ pc = "encoded"
    /\ Len(message) = 1
    /\ message[1].payload.ContentType = 260
    /\ message[1].payload.ContentEncoding = RAW
    /\ encoded = Failed("QSocketProtocolEncodeError", "Unknown content type", <<>>)

\* The bytes the header of a buffer declares as compressed message data.
DeclaredData(buf) == SubSeq(buf, 11, 10 + readUInt32(buf, 6))

\* The buffer holds a header and as many bytes after it as the header
\* declares.
HoldsDeclaredData(buf) == Len(buf) >= 10 /\ Len(buf) >= 10 + readUInt32(buf, 6)

\* The compressor call the header's format byte asks for.
MessageLevelCall(buf) ==
    [op |-> IF buf[2] = GZIP THEN "fromGzip" ELSE "fromDeflate", data |-> DeclaredData(buf)]

\* C11: with a compressor, from() returns a DecodeError ('Unknown compression
\* format') for a buffer whose compression flag is 1 and whose format byte
\* is neither GZIP nor DEFLATE, RAW included, and invokes no compressor
\* operation.
C11_UnknownCompressionFormat ==
    (pc = "decoded" /\ compressor = "zlib" /\ HoldsDeclaredData(buffer)
         /\ buffer[1] = 1 /\ buffer[2] \notin {GZIP, DEFLATE})
        => decoded = Failed("QSocketProtocolDecodeError", "Unknown compression format", <<>>)

\* A compressed buffer whose format byte was set to RAW was refused.
C11_Witness ==
    /\ pc = "decoded"
    /\ compressor = "zlib"
    /\ encoded.value[1] = 1
    /\ edit.op = "compression"
    /\ buffer[1] = 1
    /\ buffer[2] = RAW
    /\ decoded.message = "Unknown compression format"

\* C17: declared-length verification. With flag 1, from() returns a
\* DecodeError when the decompressor's output is not as long as the header's
\* uncompressed length says, after the one decompressor call; with any other
\* flag it returns a DecodeError when the two length fields of the header
\* differ, after no call. No chunk is decoded in either case.
C17_DeclaredLength ==
    /\ (pc = "decoded" /\ compressor = "zlib" /\ HoldsDeclaredData(buffer)
            /\ buffer[1] = 1 /\ buffer[2] \in {GZIP, DEFLATE}
            /\ LET out == IF buffer[2] = GZIP THEN fromGzip(DeclaredData(buffer))
                          ELSE fromDeflate(DeclaredData(buffer))
               IN  out.error = "" /\ Len(out.value) # readUInt32(buffer, 2))
           => decoded = Failed("QSocketProtocolDecodeError",
                               "Uncompressed data length mismatch after decompression",
                               <<MessageLevelCall(buffer)>>)
    /\ (pc = "decoded" /\ Len(buffer) >= 10 /\ buffer[1] # 1
            /\ readUInt32(buffer, 6) # readUInt32(buffer, 2))
           => /\ decoded.kind = "QSocketProtocolDecodeError"
              /\ decoded.message \in {"Buffer too small for compressed data",
                                      "Uncompressed data length mismatch"}
              /\ decoded.value = <<>>
              /\ decoded.calls = <<>>

\* A compressed message with a GZIP chunk, whose header declares one byte
\* more than the message data has, was refused after one compressor call.
C17_Witness ==
    /\ pc = "decoded"
    /\ compressor = "zlib"
    /\ edit = Edited("length", "uncompressed", 0, 1)
    /\ buffer[1] = 1
    /\ \E i \in 1..Len(message) : message[i].payload.ContentEncoding = GZIP
    /\ decoded.message = "Uncompressed data length mismatch after decompression"
    /\ Len(decoded.calls) = 1

\* C18: message-level decompression follows the format byte. With flag 1 and
\* a compressor, the first compressor call of from() is fromGzip for format
\* GZIP and fromDeflate for format DEFLATE, on the bytes after the header;
\* a message sent DEFLATE-compressed under format DEFLATE decodes to the
\* original message, with that call alone when no chunk is compressed.
C18_FormatSelectsDecompressor ==
    /\ (pc = "decoded" /\ compressor = "zlib" /\ HoldsDeclaredData(buffer)
            /\ buffer[1] = 1 /\ buffer[2] \in {GZIP, DEFLATE})
           => /\ decoded.calls # <<>>
              /\ Head(decoded.calls) = MessageLevelCall(buffer)
    /\ (pc = "decoded" /\ compressor = "zlib" /\ edit.op = "deflate")
           => /\ decoded.kind = "Message"
              /\ decoded.value = message
              /\ FirstCompressed(message) = 0
                     => decoded.calls = <<[op |-> "fromDeflate", data |-> DeclaredData(buffer)]>>

\* A DEFLATE-compressed message of two RAW chunks came back after one call of
\* fromDeflate.
C18_Witness ==
    /\ pc = "decoded"
    /\ compressor = "zlib"
    /\ edit.op = "deflate"
    /\ Len(message) >= 2
    /\ FirstCompressed(message) = 0
    /\ buffer[2] = DEFLATE
    /\ decoded.value = message
    /\ Len(decoded.calls) = 1

\* The first chunk of a message that encodeChunk refuses, 0 if there is none.
FirstRefused(msg) ==
    IF \E k \in 1..Len(msg) : encodeChunk(msg[k]).error # ""
    THEN CHOOSE k \in 1..Len(msg) :
             /\ encodeChunk(msg[k]).error # ""
             /\ \A j \in 1..(k - 1) : encodeChunk(msg[j]).error = ""
    ELSE 0

\* C13: no partial results. When the k-th chunk of a message fails to encode,
\* to() returns the EncodeError alone, none of the bytes of the k-1 chunks
\* encoded before it; when the k-th chunk of a buffer fails to decode (its
\* content-type or content-encoding byte is outside the enumeration),
\* from() returns the DecodeError alone, none of the k-1 chunks decoded
\* before it.
C13_NoPartialResults ==
    /\ (pc = "encoded" /\ FirstRefused(message) >= 2)
           => /\ encoded = Failed("QSocketProtocolEncodeError",
                                  encodeChunk(message[FirstRefused(message)]).error,
                                  ChunkBlocks(SubSeq(message, 1, FirstRefused(message))).calls)
              /\ buffer = <<>>
    /\ (pc = "decoded" /\ compressor = "zlib" /\ edit.chunk >= 2
            /\ edit.op \in {"contentType", "contentEncoding"})
           => /\ decoded.kind = "QSocketProtocolDecodeError"
              /\ decoded.message = IF edit.op = "contentType" THEN "Unknown content type"
                                   ELSE "Unknown Content-Encoding"
              /\ decoded.value = <<>>

\* The second chunk of an uncompressed buffer failed after the first, a GZIP
\* chunk, had been decompressed and decoded; the result holds no chunk.
C13_Witness ==
    /\ pc = "decoded"
    /\ compressor = "zlib"
    /\ Len(message) = 2
    /\ message[1].payload.ContentEncoding = GZIP
    /\ edit.op = "contentEncoding"
    /\ edit.chunk = 2
    /\ buffer[1] = 0
    /\ Len(decoded.calls) >= 1
    /\ decoded.calls[1].op = "fromGzip"
    /\ decoded.kind = "QSocketProtocolDecodeError"
    /\ decoded.value = <<>>

\* The chunk blocks of a message as the framing has them: each encoded chunk
\* after the four bytes of its length, in the order of the message.
FramedBlocks(msg) ==
    [i \in 1..Len(msg) |->
        Only({writeUInt32(Len(block)) \o block : block \in {encodeChunk(msg[i]).value}})]

RECURSIVE SumOfLengths(_)
SumOfLengths(blocks) ==
    IF blocks = <<>> THEN 0 ELSE Len(Head(blocks)) + SumOfLengths(Tail(blocks))

\* The number four bytes stand for, most significant byte first.
BigEndian(b1, b2, b3, b4) == ((b1 * 256 + b2) * 256 + b3) * 256 + b4

\* C14: message framing. Every buffer to() returns starts with a header of
\* 10 bytes: byte 0 is the compression flag, 0 or 1; byte 1 the format, RAW
\* with flag 0 and GZIP with flag 1, never DEFLATE; bytes 2..5 the big-endian
\* length of the chunk blocks before compression, each block being the
\* encoded chunk after its 4-byte length, in the order of the message; bytes
\* 6..9 the big-endian number of bytes after the header. With flag 0 these
\* bytes are the chunk blocks and the two lengths are equal; with flag 1
\* they are what toGzip makes of the chunk blocks.
C14_MessageFraming ==
    (pc = "encoded" /\ encoded.kind = "Buffer")
        => LET b == encoded.value
               blocks == FramedBlocks(message)
               data == concatBuffers(blocks)
           IN  /\ Len(b) >= 10
               /\ b[1] \in {0, 1}
               /\ b[2] = (IF b[1] = 1 THEN GZIP ELSE RAW)
               /\ b[2] # DEFLATE
               /\ BigEndian(b[3], b[4], b[5], b[6]) = SumOfLengths(blocks)
               /\ BigEndian(b[7], b[8], b[9], b[10]) = Len(b) - 10
               /\ Len(data) = SumOfLengths(blocks)
               /\ b[1] = 0 => /\ SubSeq(b, 11, Len(b)) = data
                              /\ SubSeq(b, 3, 6) = SubSeq(b, 7, 10)
               /\ b[1] = 1 => SubSeq(b, 11, Len(b)) = toGzip(data)

\* A message of two chunks was sent compressed: flag 1, format GZIP, and a
\* compressed length that differs from the uncompressed one.
C14_Witness ==
    /\ pc = "encoded"
    /\ encoded.kind = "Buffer"
    /\ Len(message) = 2
    /\ message[1] # message[2]
    /\ encoded.value[1] = 1
    /\ encoded.value[2] = GZIP
    /\ SubSeq(encoded.value, 3, 6) # SubSeq(encoded.value, 7, 10)
    /\ Len(encoded.value) = 10 + BigEndian(encoded.value[7], encoded.value[8],
                                           encoded.value[9], encoded.value[10])

\* The bytes of chunk i in the message data, without its length prefix.
ChunkBlockOf(data, i) ==
    SubSeq(data, ChunkOffset(data, i) + 5,
           ChunkOffset(data, i) + 4 + readUInt32(data, ChunkOffset(data, i)))

\* The bytes of the metadata of a chunk and of its payload as it goes on the
\* wire, content encoding applied.
MetaBytes(chunk) == encodeString(JSONstringify(chunk.meta))

PayloadBytes(chunk) ==
    encodeContent(encodePayloadData(chunk.payload.data, chunk.payload.ContentType).value,
                  chunk.payload.ContentEncoding).value

\* The fields of a chunk block taken in the order meta length, meta, payload
\* length, content-type byte, content-encoding byte, payload.
FieldsOf(block) ==
    LET metaLength == BigEndian(block[1], block[2], block[3], block[4])
        p == 4 + metaLength
        payloadLength == BigEndian(block[p + 1], block[p + 2], block[p + 3], block[p + 4])
    IN  [meta |-> SubSeq(block, 5, p), contentType |-> block[p + 5],
         contentEncoding |-> block[p + 6],
         payload |-> SubSeq(block, p + 7, p + 6 + payloadLength)]

C12_NoFailureCrossesBoundary ==
    /\ pc # "idle" => encoded.kind \in {"Buffer", "QSocketProtocolEncodeError"}
    /\ pc = "decoded" => decoded.kind \in {"Message", "QSocketProtocolDecodeError"}

\* C16: to() returns an EncodeError for a message with a chunk tagged BUFFER
\* whose data is no byte sequence (a string, a number, a plain object); when
\* the data is a byte sequence the payload of the chunk on the wire, sent
\* RAW, is exactly those bytes.
C16_BufferDataChecked ==
    /\ (pc = "encoded"
            /\ \E i \in 1..Len(message) :
                   /\ message[i].payload.ContentType = CT_BUFFER
                   /\ message[i].payload.data.t # "buffer")
           => encoded.kind = "QSocketProtocolEncodeError"
    /\ (pc = "encoded" /\ encoded.kind = "Buffer" /\ encoded.value[1] = 0)
           => \A i \in 1..Len(message) :
                  (/\ message[i].payload.ContentType = CT_BUFFER
                   /\ message[i].payload.data.t = "buffer"
                   /\ message[i].payload.ContentEncoding = RAW)
                      => FieldsOf(ChunkBlockOf(SubSeq(buffer, 11, Len(buffer)), i)).payload
                             = message[i].payload.data.bytes

\* The chunks before chunk k are encoded, or decoded, without failure as far
\* as their content encoding goes: they are RAW or there is a compressor.
EncodingsBeforeAreServed(msg, k) ==
    \A j \in 1..(k - 1) : msg[j].payload.ContentEncoding = RAW \/ compressor = "zlib"

\* C19: the Content-Encoding tag space is closed. to() returns an EncodeError
\* for a message with a chunk whose Content-Encoding is none of RAW, GZIP and
\* DEFLATE, also one that equals a tag modulo 256, with the message 'Unknown
\* Content-Encoding' when that chunk is the first to fail and valid
\* otherwise; from() returns a DecodeError for an uncompressed buffer of to()
\* in which the content-encoding byte of a chunk was changed to none of the
\* three, with the message 'Unknown Content-Encoding' when the chunks before
\* it decode.
C19_ClosedContentEncodings ==
    /\ (pc = "encoded" /\ \E i \in 1..Len(message) :
                              message[i].payload.ContentEncoding \notin ContentEncodings)
           => /\ encoded.kind = "QSocketProtocolEncodeError"
              /\ encoded.value = <<>>
              /\ LET k == FirstRefused(message)
                 IN  (/\ message[k].payload.ContentEncoding \notin ContentEncodings
                      /\ message[k].meta \in Metas
                      /\ message[k].payload.ContentType \in ContentTypes)
                         => encoded.message = "Unknown Content-Encoding"
    /\ (pc = "decoded" /\ edit.op = "contentEncoding" /\ buffer[1] = 0)
           => /\ decoded.kind = "QSocketProtocolDecodeError"
              /\ decoded.value = <<>>
              /\ EncodingsBeforeAreServed(message, edit.chunk)
                     => decoded.message = "Unknown Content-Encoding"

\* The content-encoding byte of the second chunk of an uncompressed buffer
\* was 255, and from() refused the buffer on that account.
C19_Witness ==
    /\ pc = "decoded"
    /\ edit = Edited("contentEncoding", "", 2, 255)
    /\ buffer[1] = 0
    /\ decoded = Failed("QSocketProtocolDecodeError", "Unknown Content-Encoding",
                        decoded.calls)

\* The meta of a chunk is absent, or a value that is no object.
IsInvalidMeta(meta) == meta.t \in {"undefined", "null", "boolean", "number", "string"}

\* C20: to() returns an EncodeError for a message with a chunk whose meta is
\* absent (undefined, null) or no structured value; when the chunks before it
\* encode, the error is 'Invalid chunk meta' and the compressor has been
\* called for those chunks alone: the payload of the chunk is not encoded
\* and no compressor operation is invoked for it, whatever its
\* Content-Encoding.
C20_InvalidChunkMeta ==
    (pc = "encoded" /\ \E i \in 1..Len(message) : IsInvalidMeta(message[i].meta))
        => /\ encoded.kind = "QSocketProtocolEncodeError"
           /\ encoded.value = <<>>
           /\ LET k == FirstRefused(message)
              IN  IsInvalidMeta(message[k].meta)
                      => /\ encoded.message = "Invalid chunk meta"
                         /\ encoded.calls = ChunkBlocks(SubSeq(message, 1, k - 1)).calls
                         /\ \A c \in 1..Len(encoded.calls) :
                                encoded.calls[c].op = "toGzip"
                                    => \E j \in 1..(k - 1) :
                                           /\ message[j].payload.ContentEncoding = GZIP
                                           /\ encoded.calls[c].data
                                                  = encodePayloadData(
                                                        message[j].payload.data,
                                                        message[j].payload.ContentType).value

\* A GZIP chunk without meta came second, after a GZIP chunk: to() refused
\* the message after the one compressor call of the first chunk.
C20_Witness ==
    /\ pc = "encoded"
    /\ compressor = "zlib"
    /\ Len(message) = 2
    /\ message[1].payload.ContentEncoding = GZIP
    /\ message[2].meta = JsUndefined
    /\ message[2].payload.ContentEncoding = GZIP
    /\ encoded.kind = "QSocketProtocolEncodeError"
    /\ encoded.message = "Invalid chunk meta"
    /\ Len(encoded.calls) = 1

\* The payload of chunk i of an uncompressed buffer after its content
\* decoding: the bytes the payload codec is given.
PayloadDataOf(buf, i) ==
    Only({decodeContent(f.payload, f.contentEncoding).value
          : f \in {FieldsOf(ChunkBlockOf(SubSeq(buf, 11, Len(buf)), i))}})

\* C24: fixed-width payloads are checked on decode. In a message from()
\* returns, a chunk tagged BOOLEAN has a payload of exactly 1 byte, its data
\* true iff the byte is not zero, and a chunk tagged NUMBER a payload of
\* exactly 8 bytes; a buffer with a BOOLEAN payload of 0 or more than 1 bytes
\* or a NUMBER payload of other than 8 bytes gives a DecodeError.
C24_FixedWidthPayloads ==
    (pc = "decoded" /\ decoded.kind = "Message" /\ buffer[1] = 0)
        => \A i \in 1..Len(decoded.value) :
               /\ decoded.value[i].payload.ContentType = CT_BOOLEAN
                      => /\ Len(PayloadDataOf(buffer, i)) = 1
                         /\ decoded.value[i].payload.data
                                = JsBoolean(PayloadDataOf(buffer, i)[1] # 0)
               /\ decoded.value[i].payload.ContentType = CT_NUMBER
                      => Len(PayloadDataOf(buffer, i)) = 8

\* The runtime type a content type names; JSON names none.
ShapeOf(contentType) ==
    CASE contentType = CT_UNDEFINED -> "undefined"
      [] contentType = CT_NULL -> "null"
      [] contentType = CT_BOOLEAN -> "boolean"
      [] contentType = CT_NUMBER -> "number"
      [] contentType = CT_STRING -> "string"
      [] contentType = CT_BUFFER -> "buffer"
      [] OTHER -> "any"

\* C25: tag and data agree after decode. In every message from() returns the
\* data of a chunk has the runtime type its Content-Type names (undefined,
\* null, a boolean, a number, a string, a byte sequence), whatever the
\* payload bytes were and whatever type the payload was encoded from; for
\* UNDEFINED and NULL the encoder emits a payload of no bytes whatever the
\* data is.
C25_TagDataAgreement ==
    /\ (pc = "decoded" /\ decoded.kind = "Message")
           => \A i \in 1..Len(decoded.value) :
                  decoded.value[i].payload.ContentType # CT_JSON
                      => decoded.value[i].payload.data.t
                             = ShapeOf(decoded.value[i].payload.ContentType)
    /\ (pc = "encoded" /\ encoded.kind = "Buffer" /\ edit = NoEdit /\ buffer[1] = 0)
           => \A i \in 1..Len(message) :
                  message[i].payload.ContentType \in {CT_UNDEFINED, CT_NULL}
                      => PayloadDataOf(buffer, i) = <<>>

\* A chunk encoded from a string as STRING arrived tagged BOOLEAN and was
\* decoded to a boolean.
C25_Witness ==
    /\ pc = "decoded"
    /\ decoded.kind = "Message"
    /\ edit.op = "retag"
    /\ edit.delta = CT_BOOLEAN
    /\ message[edit.chunk].payload.ContentType = CT_STRING
    /\ decoded.value[edit.chunk].payload.ContentType = CT_BOOLEAN
    /\ decoded.value[edit.chunk].payload.data.t = "boolean"

\* Every chunk of the message has Content-Encoding RAW.
AllRaw(msg) == \A i \in 1..Len(msg) : msg[i].payload.ContentEncoding = RAW

\* The sum of the lengths of the chunk blocks of a message of RAW chunks,
\* each with its 4-byte length, fields counted one by one.
RawSize(msg) ==
    SumOfLengths([i \in 1..Len(msg) |->
        [j \in 1..(4 + 4 + Len(MetaBytes(msg[i])) + 4 + 2
                     + Len(encodePayloadData(msg[i].payload.data,
                                             msg[i].payload.ContentType).value)) |-> 0]])

\* C26: no compression by default. For a valid message whose chunks are all
\* RAW and whose serialized size does not exceed maxUncompressedSize, to()
\* returns a buffer with first byte 0 after no compressor call, the payload
\* of each chunk on the wire being the payload codec's output; from()
\* returns the message from that buffer after no compressor call; so both
\* succeed with and without a compressor.
C26_NoCompressionByDefault ==
    (AllRaw(message) /\ IsValidMessage(message) /\ RawSize(message) <= maxUncompressedSize)
        => /\ pc # "idle"
               => /\ encoded.kind = "Buffer"
                  /\ encoded.calls = <<>>
                  /\ encoded.value[1] = 0
                  /\ \A i \in 1..Len(message) :
                         FieldsOf(ChunkBlockOf(SubSeq(buffer, 11, Len(buffer)), i)).payload
                             = encodePayloadData(message[i].payload.data,
                                                 message[i].payload.ContentType).value
           /\ pc = "decoded"
               => /\ decoded.kind = "Message"
                  /\ decoded.calls = <<>>
                  /\ decoded.value = message

\* A message of two RAW chunks, shorter than the threshold, went through a
\* codec without compressor and came back.
C26_Witness ==
    /\ pc = "decoded"
    /\ compressor = "none"
    /\ Len(message) = 2
    /\ AllRaw(message)
    /\ IsValidMessage(message)
    /\ RawSize(message) <= maxUncompressedSize
    /\ encoded.calls = <<>>
    /\ encoded.value[1] = 0
    /\ decoded = Resolved("Message", message, <<>>)

\* The output of the payload codec for a chunk, and the payload as a working
\* compressor leaves it under the chunk's Content-Encoding.
PayloadCodecOutput(chunk) ==
    encodePayloadData(chunk.payload.data, chunk.payload.ContentType).value

WirePayload(chunk) ==
    CASE chunk.payload.ContentEncoding = GZIP -> toGzip(PayloadCodecOutput(chunk))
      [] chunk.payload.ContentEncoding = DEFLATE -> toDeflate(PayloadCodecOutput(chunk))
      [] OTHER -> PayloadCodecOutput(chunk)

\* The message data of a message: for each chunk the 4-byte length of its
\* block and the block, whose payload is the wire payload.
LayeredMessageData(msg) ==
    concatBuffers([i \in 1..Len(msg) |->
        Only({writeUInt32(Len(block)) \o block
              : block \in {writeUInt32(Len(MetaBytes(msg[i]))) \o MetaBytes(msg[i])
                               \o writeUInt32(Len(WirePayload(msg[i])))
                               \o << msg[i].payload.ContentType, msg[i].payload.ContentEncoding >>
                               \o WirePayload(msg[i])}})])

\* The compressor calls of the chunks of a message, in the order of the
\* chunks: none for a RAW chunk, one for a GZIP or DEFLATE chunk.
PayloadCalls(msg, gzipOp, deflateOp, payloads) ==
    concatBuffers([i \in 1..Len(msg) |->
        CASE msg[i].payload.ContentEncoding = GZIP -> <<[op |-> gzipOp, data |-> payloads[i]]>>
          [] msg[i].payload.ContentEncoding = DEFLATE ->
                 <<[op |-> deflateOp, data |-> payloads[i]]>>
          [] OTHER -> <<>>])

\* C27: layered compression. With a compressor and a valid message, to()
\* compresses each GZIP or DEFLATE payload first, in chunk order, and frames
\* it with payload_len the length of the compressed payload; the length it
\* compares with maxUncompressedSize, and writes into the header, is that of
\* the chunk blocks after this compression; beyond the threshold the whole
\* message data is compressed once more, as the last call. from() undoes
\* the layers in reverse: the message-level decompression first, then each
\* chunk's payload decompression in chunk order, and returns the message.
C27_LayeredCompression ==
    (compressor = "zlib" /\ IsValidMessage(message) /\ Len(message) >= 1)
        => /\ pc = "encoded"
               => /\ encoded.kind = "Buffer"
                  /\ SubSeq(encoded.value, 3, 6)
                         = writeUInt32(Len(LayeredMessageData(message)))
                  /\ encoded.value[1]
                         = (IF Len(LayeredMessageData(message)) > maxUncompressedSize
                            THEN 1 ELSE 0)
                  /\ encoded.calls
                         = PayloadCalls(message, "toGzip", "toDeflate",
                                      [i \in 1..Len(message) |->
                                          PayloadCodecOutput(message[i])])
                               \o (IF encoded.value[1] = 1
                                   THEN <<[op |-> "toGzip",
                                           data |-> LayeredMessageData(message)]>>
                                   ELSE <<>>)
                  /\ SubSeq(encoded.value, 11, Len(encoded.value))
                         = (IF encoded.value[1] = 1 THEN toGzip(LayeredMessageData(message))
                            ELSE LayeredMessageData(message))
           /\ DecodedUnchanged
               => /\ decoded.kind = "Message"
                  /\ decoded.value = message
                  /\ decoded.calls
                         = (IF buffer[1] = 1
                            THEN <<[op |-> "fromGzip", data |-> SubSeq(buffer, 11, Len(buffer))]>>
                            ELSE <<>>)
                               \o PayloadCalls(message, "fromGzip", "fromDeflate",
                                              [i \in 1..Len(message) |->
                                                  WirePayload(message[i])])

\* A message with a GZIP chunk that is within the threshold before the
\* payload is compressed and beyond it afterwards was compressed twice and
\* decompressed twice.
C27_Witness ==
    /\ DecodedUnchanged
    /\ compressor = "zlib"
    /\ Len(message) = 1
    /\ message[1].payload.ContentEncoding = GZIP
    /\ RawSize(message) <= maxUncompressedSize
    /\ Len(LayeredMessageData(message)) > maxUncompressedSize
    /\ buffer[1] = 1
    /\ Len(encoded.calls) = 2
    /\ Len(decoded.calls) = 2
    /\ decoded.calls[1].data = SubSeq(buffer, 11, Len(buffer))
    /\ decoded.value = message

\* C30: header bytes that do not select decompression do not influence
\* decoding. For a buffer whose flag byte is not 1, from() returns the same
\* result whatever the format byte is, and the result it returns for the
\* same buffer with flag byte 0: every flag value other than 1 is decoded as
\* raw, and no compressor operation is invoked on the message data.
C30_UnselectedHeaderBytes ==
    (pc = "decoded" /\ Len(buffer) >= 10 /\ buffer[1] # 1)
        => /\ \A format \in ContentEncodings \cup UnknownFormatBytes :
                  from(Patch(buffer, 1, <<format>>)) = decoded
           /\ from(Patch(buffer, 0, <<0>>)) = decoded
           /\ \A c \in 1..Len(decoded.calls) :
                  decoded.calls[c].data # SubSeq(buffer, 11, Len(buffer))

\* An uncompressed buffer whose flag byte was set to 255 and whose format
\* byte to GZIP was decoded to the message it carries.
C30_Witness ==
    /\ pc = "decoded"
    /\ edit = Edited("compression", "", 255, GZIP)
    /\ encoded.value[1] = 0
    /\ buffer[1] = 255
    /\ buffer[2] = GZIP
    /\ Len(message) >= 1
    /\ decoded = Resolved("Message", message, decoded.calls)

\* The message as it was when to() was called, before the caller wrote into
\* a payload of it.
ArgumentOfTo ==
    IF edit.op = "argument"
    THEN [message EXCEPT ![edit.chunk].payload.data.bytes[1] = edit.delta]
    ELSE message

\* C28: each call allocates its own buffers. The buffer to() returned shares
\* no storage with a payload of its argument, and no BUFFER payload of the
\* message from() returned shares storage with the buffer passed to it: a
\* write to the argument after the call has returned leaves the result of
\* the call as it was.
C28_OwnBuffers ==
    /\ (pc \in {"encoded", "decoded", "written"} /\ encoded.kind = "Buffer")
           => encoded = to(ArgumentOfTo)
    /\ (pc = "decoded" /\ decoded.kind = "Message")
           => \A i \in 1..Len(decoded.value) :
                  ~(InputView(buffer, i).shared /\ InputView(buffer, i).length > 0)
    /\ pc = "written" => decoded = from(encoded.value)

\* ------------------------------------------------- the calls step by step

\* A compressor operation a call has invoked, with the chunk whose payload
\* the data is (0 when the data is the message data).
Operation(call, chunk) == [op |-> call.op, data |-> call.data, chunk |-> chunk]

\* The compressor calls of a log, without the chunks they were made for.
Untagged(log) == [k \in 1..Len(log) |-> [op |-> log[k].op, data |-> log[k].data]]

\* await: the call goes on only when the operation it awaits has settled.
\* Variant that goes on without waiting.
CanProceed_noAwait(c) == TRUE

CanProceed(c) == inflight[c].pending = {}

\* chunkBuffers.push(chunkEntryBuffer) / message.push(chunk) on the array
\* that is a local of the call. Variant with the array a field of the
\* instance, which every call in its chunk loop pushes to and reads.
Push_instanceField(calls, c, entry) ==
    [d \in CallIds |->
        IF calls[d].op = calls[c].op /\ calls[d].at = "chunks"
        THEN [calls[d] EXCEPT !.pushed = Append(@, entry)]
        ELSE calls[d]]

Push(calls, c, entry) == [calls EXCEPT ![c].pushed = Append(@, entry)]

\* A throw inside the try block: the catch clause returns the error object
\* and the call is over. Variant that notes the error and goes on with the
\* call.
Fail_andContinue(calls, c, kind, msg) ==
    [calls EXCEPT ![c].result = Failed(kind, msg, Untagged(calls[c].calls))]

Fail(calls, c, kind, msg) ==
    [calls EXCEPT ![c].result = Failed(kind, msg, Untagged(calls[c].calls)),
                  ![c].at = "done"]

\* return finalMessageBuffer / return message
Finish(calls, c, kind, value) ==
    [calls EXCEPT ![c].result = Resolved(kind, value, Untagged(calls[c].calls)),
                  ![c].at = "done"]

\* The call invokes a compressor operation and awaits it.
Invoke(calls, c, call, chunk) ==
    [calls EXCEPT ![c].pending = @ \cup {Operation(call, chunk)},
                  ![c].calls = Append(@, Operation(call, chunk))]

\* The header and the message data, as to() puts them together.
finalMessageBuffer(compressionFlag, compressionFormat, messageData, compressedMessageData) ==
    concatBuffers(<< writeUInt8(compressionFlag), writeUInt8(compressionFormat),
                     writeUInt32(Len(messageData)), writeUInt32(Len(compressedMessageData)),
                     compressedMessageData >>)

\* One pass of the while loop of from() up to the call of decodeChunk.
\* Variant without the check of the chunk length against what is left.
nextChunk_unchecked(messageData, messageOffset) ==
    IF Len(messageData) - messageOffset < 4
    THEN [error |-> "Insufficient data for chunk length", offset |-> messageOffset,
          chunkBuffer |-> <<>>]
    ELSE LET chunkLength == readUInt32(messageData, messageOffset)
             offset1 == messageOffset + 4
         IN  [error |-> "", offset |-> offset1 + chunkLength,
              chunkBuffer |-> subarray(messageData, offset1, offset1 + chunkLength)]

nextChunk(messageData, messageOffset) ==
    IF Len(messageData) - messageOffset < 4
    THEN [error |-> "Insufficient data for chunk length", offset |-> messageOffset,
          chunkBuffer |-> <<>>]
    ELSE LET chunkLength == readUInt32(messageData, messageOffset)
             offset1 == messageOffset + 4
         IN  IF Len(messageData) - offset1 < chunkLength
             THEN [error |-> "Insufficient data for chunk", offset |-> offset1,
                   chunkBuffer |-> <<>>]
             ELSE [error |-> "", offset |-> offset1 + chunkLength,
                   chunkBuffer |-> subarray(messageData, offset1, offset1 + chunkLength)]

\* The chunk buffer of chunk k of the message data.
chunkBufferOf(messageData, k) ==
    nextChunk(messageData, ChunkOffset(messageData, k)).chunkBuffer

\* protocol.to(msg) is called: the call enters its for loop.
CallTo(c, msg) ==
    /\ inflight[c].op = "none"
    /\ inflight' = [inflight EXCEPT ![c] =
                       [NoCall EXCEPT !.op = "to", !.argument = msg, !.at = "chunks"]]
    /\ UNCHANGED <<compressor, maxUncompressedSize, message, encoded, buffer, edit,
                   decoded, pc, turns>>

\* One pass of the for loop of to(): encodeChunk for the next chunk, up to
\* its compressor operation if it has one, else up to the push.
EncodeNext(c) ==
    /\ inflight[c].op = "to"
    /\ inflight[c].at = "chunks"
    /\ CanProceed(c)
    /\ inflight[c].started < Len(inflight[c].argument)
    /\ inflight' = Only({
           IF chunkBuffer.calls # <<>> THEN Invoke(calls, c, chunkBuffer.calls[1], k)
           ELSE IF chunkBuffer.error # ""
           THEN Fail(calls, c, "QSocketProtocolEncodeError", chunkBuffer.error)
           ELSE Push(calls, c, writeUInt32(Len(chunkBuffer.value)) \o chunkBuffer.value)
           : <<k, calls, chunkBuffer>> \in
                 {<<inflight[c].started + 1,
                    [inflight EXCEPT ![c].started = @ + 1],
                    encodeChunk(inflight[c].argument[inflight[c].started + 1])>>}})
    /\ turns' = [turns EXCEPT ![c] = @ + 1]
    /\ UNCHANGED <<compressor, maxUncompressedSize, message, encoded, buffer, edit,
                   decoded, pc>>

\* to() after its loop: the message data, compressed beyond the threshold,
\* and the header.
CompressMessage(c) ==
    /\ inflight[c].op = "to"
    /\ inflight[c].at = "chunks"
    /\ CanProceed(c)
    /\ inflight[c].started = Len(inflight[c].argument)
    /\ inflight' = Only({
           IF shouldCompress(Len(messageData))
           THEN Invoke([inflight EXCEPT ![c].at = "message", ![c].messageData = messageData],
                       c, [op |-> "toGzip", data |-> messageData], 0)
           ELSE Finish(inflight, c, "Buffer",
                       finalMessageBuffer(0, RAW, messageData, messageData))
           : messageData \in {concatBuffers(inflight[c].pushed)}})
    /\ turns' = [turns EXCEPT ![c] = @ + 1]
    /\ UNCHANGED <<compressor, maxUncompressedSize, message, encoded, buffer, edit,
                   decoded, pc>>

\* protocol.from(buf) is called: the header, up to the decompression of the
\* message data if the flag asks for it, else up to the while loop.
CallFrom(c, buf) ==
    /\ inflight[c].op = "none"
    /\ inflight' = Only({
           IF Len(buf) < 10
           THEN Fail(calls, c, "QSocketProtocolDecodeError",
                     "Buffer too small to contain header")
           ELSE IF Len(buf) < 10 + readUInt32(buf, 6)
           THEN Fail(calls, c, "QSocketProtocolDecodeError",
                     "Buffer too small for compressed data")
           ELSE Only({
               IF messageData.calls # <<>> THEN Invoke(calls, c, messageData.calls[1], 0)
               ELSE IF messageData.error # ""
               THEN Fail(calls, c, "QSocketProtocolDecodeError", messageData.error)
               ELSE [calls EXCEPT ![c].messageData = messageData.value,
                                  ![c].at = "chunks"]
               : messageData \in
                     {decompress(readUInt8(buf, 0), readUInt8(buf, 1),
                                 subarray(buf, 10, 10 + readUInt32(buf, 6)),
                                 readUInt32(buf, 2))}})
           : calls \in {[inflight EXCEPT ![c] =
                            [NoCall EXCEPT !.op = "from", !.argument = buf,
                                           !.at = "message"]]}})
    /\ UNCHANGED <<compressor, maxUncompressedSize, message, encoded, buffer, edit,
                   decoded, pc, turns>>

\* One pass of the while loop of from(), up to the compressor operation of
\* decodeChunk if it has one, else up to the push; or the end of the loop
\* and the return.
DecodeNext(c) ==
    /\ inflight[c].op = "from"
    /\ inflight[c].at = "chunks"
    /\ CanProceed(c)
    /\ inflight' = Only({
           IF ~(messageOffset < Len(messageData))
           THEN IF messageOffset # Len(messageData)
                THEN Fail(inflight, c, "QSocketProtocolDecodeError",
                          "Extra data after message parsing")
                ELSE Finish(inflight, c, "Message", inflight[c].pushed)
           ELSE Only({
               IF next.error # "" THEN Fail(calls, c, "QSocketProtocolDecodeError", next.error)
               ELSE Only({
                   IF chunk.calls # <<>>
                   THEN Invoke(calls, c, chunk.calls[1], inflight[c].started + 1)
                   ELSE IF chunk.error # ""
                   THEN Fail(calls, c, "QSocketProtocolDecodeError", chunk.error)
                   ELSE Push(calls, c, chunk.value)
                   : chunk \in {decodeChunk(next.chunkBuffer)}})
               : <<next, calls>> \in
                     {<<n, [inflight EXCEPT ![c].messageOffset = n.offset,
                                            ![c].started = @ + (IF n.error = "" THEN 1 ELSE 0)]>>
                      : n \in {nextChunk(messageData, messageOffset)}}})
           : <<messageData, messageOffset>> \in
                 {<<inflight[c].messageData, inflight[c].messageOffset>>}})
    /\ turns' = [turns EXCEPT ![c] = @ + 1]
    /\ UNCHANGED <<compressor, maxUncompressedSize, message, encoded, buffer, edit,
                   decoded, pc>>

\* The compressor operation a call awaits settles, and the call goes on to
\* its next await or to its end.
Settle(c, operation) ==
    /\ operation \in inflight[c].pending
    /\ inflight' = Only({
           IF inflight[c].op = "to" /\ operation.chunk > 0
           THEN Only({
                    IF chunkBuffer.error # ""
                    THEN Fail(calls, c, "QSocketProtocolEncodeError", chunkBuffer.error)
                    ELSE Push(calls, c, writeUInt32(Len(chunkBuffer.value)) \o chunkBuffer.value)
                    : chunkBuffer \in {encodeChunk(inflight[c].argument[operation.chunk])}})
           ELSE IF inflight[c].op = "to"
           THEN Only({
                    IF compressedMessageData.error # ""
                    THEN Fail(calls, c, "QSocketProtocolEncodeError", compressedMessageData.error)
                    ELSE Finish(calls, c, "Buffer",
                                finalMessageBuffer(1, GZIP, inflight[c].messageData,
                                                   compressedMessageData.value))
                    : compressedMessageData \in {Call(operation.op, operation.data)}})
           ELSE IF operation.chunk = 0
           THEN Only({
                    IF messageData.error # ""
                    THEN Fail(calls, c, "QSocketProtocolDecodeError", messageData.error)
                    ELSE [calls EXCEPT ![c].messageData = messageData.value,
                                       ![c].at = "chunks"]
                    : messageData \in
                          {decompress(readUInt8(buf, 0), readUInt8(buf, 1),
                                      subarray(buf, 10, 10 + readUInt32(buf, 6)),
                                      readUInt32(buf, 2))
                           : buf \in {inflight[c].argument}}})
           ELSE Only({
                    IF chunk.error # ""
                    THEN Fail(calls, c, "QSocketProtocolDecodeError", chunk.error)
                    ELSE Push(calls, c, chunk.value)
                    : chunk \in {decodeChunk(chunkBufferOf(inflight[c].messageData,
                                                           operation.chunk))}})
           : calls \in {[inflight EXCEPT ![c].pending = @ \ {operation}]}})
    /\ turns' = [turns EXCEPT ![c] = @ + 1]
    /\ UNCHANGED <<compressor, maxUncompressedSize, message, encoded, buffer, edit,
                   decoded, pc>>

\* The arguments of the concurrent calls of to(): messages with no, one and
\* two compressor operations for their chunks, and messages whose first or
\* second chunk is refused.
StepMessages ==
    { <<>>,
      <<Chunk(MetaData, JsString(<<97>>), CT_STRING, RAW)>>,
      <<Chunk(MetaAck, JsBoolean(TRUE), CT_BOOLEAN, GZIP),
        Chunk(MetaControl, JsBuffer(<<255, 255, 255>>), CT_BUFFER, DEFLATE)>>,
      <<Chunk(MetaData, JsString(<<97>>), CT_STRING, RAW),
        Chunk(MetaAck, JsBoolean(TRUE), CT_BOOLEAN, GZIP)>>,
      <<Chunk(MetaAck, JsBoolean(TRUE), CT_BOOLEAN, GZIP),
        Chunk(MetaAck, JsString(<<97>>), 999, RAW)>>,
      <<Chunk(MetaAck, JsString(<<97>>), 999, RAW),
        Chunk(MetaAck, JsBoolean(TRUE), CT_BOOLEAN, GZIP)>> }

\* A buffer as an instance with a compressor sends it, with the message data
\* as it is or compressed.
Sent(compressionFlag, messageData) ==
    IF compressionFlag = 1
    THEN finalMessageBuffer(1, GZIP, messageData, toGzip(messageData))
    ELSE finalMessageBuffer(0, RAW, messageData, messageData)

\* The arguments of the concurrent calls of from(): the buffers of the
\* messages that to() accepts, plain and compressed, and buffers with a
\* surplus byte, with a chunk length beyond the data, with a payload that
\* does not decompress, with message data that does not decompress, and
\* without a whole header.
StepBuffers ==
    UNION {{ Sent(0, LayeredMessageData(msg)), Sent(1, LayeredMessageData(msg)) }
           : msg \in {m \in StepMessages :
                          \A i \in 1..Len(m) : m[i].payload.ContentType \in ContentTypes}}
      \cup UNION {{ Sent(flag, LayeredMessageData(msg) \o <<0>>),
                    Sent(flag, Patch(LayeredMessageData(msg), 3, <<255>>)),
                    Sent(flag, Patch(LayeredMessageData(msg),
                                     FieldOffset(LayeredMessageData(msg), 1, "contentType") + 2,
                                     <<0>>)) }
                  : flag \in {0, 1},
                    msg \in {<<Chunk(MetaAck, JsBoolean(TRUE), CT_BOOLEAN, GZIP),
                               Chunk(MetaControl, JsBuffer(<<255, 255, 255>>), CT_BUFFER,
                                     DEFLATE)>>}}
      \cup { <<1, GZIP, 0, 0, 0, 1, 0, 0, 0, 1, 0>>, <<0, 0, 0>> }

InitSteps ==
    /\ compressor \in Compressors \cup FaultyCompressors
    /\ maxUncompressedSize \in {0, DefaultMaxUncompressedSize}
    /\ message = <<>>
    /\ encoded = NoResult
    /\ buffer = <<>>
    /\ edit = NoEdit
    /\ decoded = NoResult
    /\ pc = "idle"
    /\ inflight = NoCalls
    /\ turns = [c \in CallIds |-> 0]

Step(c) ==
    \/ EncodeNext(c)
    \/ CompressMessage(c)
    \/ DecodeNext(c)
    \/ \E operation \in inflight[c].pending : Settle(c, operation)

NextSteps ==
    \/ \E c \in CallIds, msg \in StepMessages : CallTo(c, msg)
    \/ \E c \in CallIds, buf \in StepBuffers : CallFrom(c, buf)
    \/ \E c \in CallIds : EncodeNext(c)
    \/ \E c \in CallIds : CompressMessage(c)
    \/ \E c \in CallIds : DecodeNext(c)
    \/ \E c \in CallIds : \E operation \in inflight[c].pending : Settle(c, operation)

SpecSteps == InitSteps /\ [][NextSteps]_vars

\* The event loop runs the next continuation of call c: a step of a call
\* that has not returned, counted in turns.
Scheduled(c) ==
    /\ inflight[c].at \in {"chunks", "message"}
    /\ turns' = [turns EXCEPT ![c] = @ + 1]

\* The event loop runs every continuation that is ready, and the compressor
\* operations settle: a call that has not returned gets its next turn.
SpecStepsFair == SpecSteps /\ \A c \in CallIds : WF_turns(Scheduled(c))

\* What the call returns when it runs alone on the instance.
Alone(call) ==
    IF call.op = "to" THEN to(call.argument) ELSE from(call.argument)

\* C21: concurrent calls are independent. However the steps of several
\* calls of to() and from() on one instance interleave at their awaits, with
\* a compressor whose result depends on its argument only, each call returns
\* what it returns when it runs alone; and no step writes the compressor or
\* maxUncompressedSize of the instance.
C21_ConcurrentCallsIndependent ==
    /\ [](\A c \in CallIds :
              inflight[c].at = "done" => inflight[c].result = Alone(inflight[c]))
    /\ [][compressor' = compressor /\ maxUncompressedSize' = maxUncompressedSize]_vars

\* A to() that has compressed two payloads and its message data has
\* returned while a from() on the same instance, past its first chunk, awaits
\* the decompression of the payload of its second.
C21_Witness ==
    /\ inflight[1].op = "to" /\ inflight[1].at = "done"
    /\ inflight[1].result.kind = "Buffer" /\ Len(inflight[1].result.calls) = 3
    /\ inflight[2].op = "from" /\ inflight[2].at = "chunks"
    /\ Len(inflight[2].pushed) = 1
    /\ \E operation \in inflight[2].pending : operation.chunk = 2

\* The chunks a compressor operation of a log was invoked for, in the order
\* of the invocations.
ChunksOf(log) == [k \in 1..Len(log) |-> log[k].chunk]

Increasing(seq) == \A j, k \in 1..Len(seq) : j < k => seq[j] < seq[k]

\* C22: strictly sequential processing inside one call. A call awaits at
\* most one compressor operation at any moment. In to(), a chunk is begun
\* only when every chunk before it has been pushed, the operation awaited is
\* that of the chunk after the last one pushed, and the message data is
\* compressed only when every chunk has been pushed. In from(), no chunk is
\* begun while the decompression of the message data is awaited, and the
\* chunks are begun and pushed one after the other.
C22_StrictlySequential ==
    \A c \in CallIds :
        /\ Cardinality(inflight[c].pending) <= 1
        /\ inflight[c].started <= Len(inflight[c].pushed) + 1
        /\ \A operation \in inflight[c].pending :
               IF operation.chunk > 0
               THEN /\ operation.chunk = inflight[c].started
                    /\ operation.chunk = Len(inflight[c].pushed) + 1
               ELSE IF inflight[c].op = "to"
               THEN Len(inflight[c].pushed) = Len(inflight[c].argument)
               ELSE inflight[c].started = 0 /\ inflight[c].pushed = <<>>
        /\ inflight[c].op = "to"
               => /\ \A k \in 1..Len(inflight[c].calls) :
                         inflight[c].calls[k].chunk = 0
                             => /\ k = Len(inflight[c].calls)
                                /\ Len(inflight[c].pushed) = Len(inflight[c].argument)
                  /\ Increasing(ChunksOf(SelectSeq(inflight[c].calls,
                                                   LAMBDA call : call.chunk > 0)))
        /\ inflight[c].op = "from" => Increasing(ChunksOf(inflight[c].calls))

\* A to() awaits the compression of its message data after the compression
\* of two payloads, and a from() has returned a message of two chunks after
\* the decompression of the message data and of two payloads.
C22_Witness ==
    /\ inflight[1].op = "to" /\ inflight[1].at = "message"
    /\ ChunksOf(inflight[1].calls) = <<1, 2, 0>>
    /\ inflight[2].op = "from" /\ inflight[2].result.kind = "Message"
    /\ ChunksOf(inflight[2].calls) = <<0, 1, 2>>

\* The call has failed.
HasFailed(call) ==
    call.result.kind \in {"QSocketProtocolEncodeError", "QSocketProtocolDecodeError", "rejected"}

\* C23: fail-fast, no retry. Once a check or a compressor operation of a call
\* has failed, the call begins no further chunk, pushes nothing and invokes
\* no compressor operation; and a call invokes at most one compressor
\* operation for the payload of a chunk and at most one for the message data.
C23_FailFastNoRetry ==
    /\ [][\A c \in CallIds :
              HasFailed(inflight[c])
                  => /\ inflight'[c].started = inflight[c].started
                     /\ inflight'[c].pushed = inflight[c].pushed
                     /\ inflight'[c].calls = inflight[c].calls
                     /\ inflight'[c].pending = {}]_vars
    /\ [](\A c \in CallIds :
              \A j, k \in 1..Len(inflight[c].calls) :
                  inflight[c].calls[j].chunk = inflight[c].calls[k].chunk => j = k)

\* A to() whose first compressor operation failed has returned with its
\* second chunk not begun, and a from() has returned the error of its first
\* chunk with the second not begun.
C23_Witness ==
    /\ inflight[1].op = "to" /\ inflight[1].at = "done"
    /\ inflight[1].result.message = "compressor failed"
    /\ inflight[1].started = 1 /\ Len(inflight[1].argument) = 2
    /\ Len(inflight[1].calls) = 1
    /\ inflight[2].op = "from" /\ inflight[2].at = "done"
    /\ HasFailed(inflight[2])
    /\ inflight[2].started = 1 /\ inflight[2].pushed = <<>>
    /\ inflight[2].messageOffset < Len(inflight[2].messageData)

\* C29: the chunk loop of from() terminates. At every loop head
\* 0 <= messageOffset <= length(messageData); a pass of the loop that moves
\* messageOffset moves it forward by at least 4; no call fails with 'Extra
\* data after message parsing'; a call that has not returned has a step to
\* take; and, the compressor operations settling, every call of from()
\* returns, with a message or a DecodeError unless an
\* operation of the compressor threw something that is not an Error.
C29_ChunkLoopTerminates ==
    /\ [](\A c \in CallIds :
              /\ inflight[c].op = "from"
                     => /\ 0 <= inflight[c].messageOffset
                        /\ inflight[c].messageOffset <= Len(inflight[c].messageData)
              /\ inflight[c].result.message # "Extra data after message parsing"
              /\ (inflight[c].op = "from" /\ inflight[c].at = "done"
                     /\ compressor # "throwsNull")
                     => inflight[c].result.kind \in {"Message", "QSocketProtocolDecodeError"}
              /\ (inflight[c].op = "from" /\ inflight[c].result.kind = "Message")
                     => inflight[c].messageOffset = Len(inflight[c].messageData))
    /\ [][\A c \in CallIds :
              (inflight[c].op = "from" /\ inflight'[c].messageOffset # inflight[c].messageOffset)
                  => inflight'[c].messageOffset >= inflight[c].messageOffset + 4]_vars
    /\ [](\A c \in CallIds :
              inflight[c].at \in {"chunks", "message"}
                  => \/ inflight[c].pending # {}
                     \/ inflight[c].at = "chunks" /\ CanProceed(c))
    /\ \A c \in CallIds : (inflight[c].op = "from") ~> (inflight[c].at = "done")

\* A from() has left its loop after two passes with messageOffset at the end
\* of the message data, and another has failed in its second pass on a
\* surplus byte.
C29_Witness ==
    /\ inflight[1].op = "from" /\ inflight[1].result.kind = "Message"
    /\ Len(inflight[1].pushed) = 2
    /\ inflight[1].messageOffset = Len(inflight[1].messageData)
    /\ inflight[2].op = "from"
    /\ inflight[2].result.message = "Insufficient data for chunk length"
    /\ inflight[2].messageOffset = Len(inflight[2].messageData) - 1

====
